---- MODULE Spec2Model ----
(***************************************************************************)
(* Model of the image-to-embroidery conversion of embroiderypro:           *)
(*   - ConversionManager.convertImage and ConversionPipeline.execute       *)
(*     (src/src/lib/embroidery/conversion), run by two concurrent          *)
(*     invocations that interleave at the await points of execute();       *)
(*   - FormatConverter.convertToFormat and the DSTWriter precondition      *)
(*     check (src/src/lib/embroidery/formats).                             *)
(*                                                                         *)
(* An input image is represented by what the image-processing stages       *)
(* compute from it (the quantizer's used colors, whether the normalizer or *)
(* the edge detector rejects it, the contours, the planned stitch          *)
(* positions).  Every buffer derived from an image carries that image, so  *)
(* that each stage is a function of the argument it is called with.        *)
(***************************************************************************)
EXTENDS Integers, Sequences, FiniteSets, TLC

VARIABLES
    pc,             \* per invocation: where convertImage/execute is suspended
    params,         \* per invocation: the argument of convertImage
    state,          \* per pipeline instance: ConversionPipeline.state
    settings,       \* per pipeline instance: ConversionPipeline.settings
    pending,        \* per invocation: the settled value of the awaited promise
    stitchesLocal,  \* per invocation: the local `stitches` of execute()
    progressLog,    \* history: the onProgress calls of each pipeline, in order
    invoked,        \* history: the stage components each pipeline has called
    thrown,         \* history: the error raised inside execute()'s try block
    failedStage,    \* history: index of the stage that was running when it failed
    result,         \* per invocation: what convertImage returned or threw
    overlapped,     \* history: a segment ran while another invocation was suspended
    mgrStage,       \* ConversionManager.stage
    mgrProgress,    \* ConversionManager.progress
    mgrError,       \* ConversionManager.error
    fmtPc,          \* convertToFormat: "call" before, "done" after
    fmtPattern,     \* convertToFormat: the pattern argument
    fmtFormat,      \* convertToFormat: the format argument
    fmtWriterCalls, \* history: the format writers convertToFormat invoked
    fmtResult,      \* convertToFormat: the bytes returned or the error thrown
    fmtEntry,       \* the entry point called: convertToFormat or DSTWriter.write
    callPc,         \* a component called on its own: "call" before, then "once", "twice"
    callArg,        \* a component called on its own: its name and its argument
    callResult      \* history: what each call of the component returned

pvars == <<pc, params, state, settings, pending, stitchesLocal, progressLog,
           invoked, thrown, failedStage, result, overlapped, mgrStage, mgrProgress,
           mgrError>>
fvars == <<fmtPc, fmtPattern, fmtFormat, fmtWriterCalls, fmtResult, fmtEntry>>
cvars == <<callPc, callArg, callResult>>
vars == <<pvars, fvars, cvars>>

(***************************************************************************)
(* JavaScript values                                                       *)
(***************************************************************************)
Undefined == "undefined"
None == <<>>
Some(v) == <<v>>

\* A JS number: finite, NaN, or an infinity (v carries the sign).
Fin(v) == [k |-> "fin", v |-> v]
NaN == [k |-> "nan", v |-> 0]
PosInfinity == [k |-> "inf", v |-> 1]
NegInfinity == [k |-> "inf", v |-> -1]
isNaN(n) == n.k = "nan"
IsFiniteNumber(n) == n.k = "fin"

\* Property read: a key the object literal does not have reads as undefined.
Get(obj, key) == IF key \in DOMAIN obj THEN obj[key] ELSE Undefined

SeqToSet(s) == {s[i] : i \in DOMAIN s}
IsPrefix(s, t) == Len(s) <= Len(t) /\ SubSeq(t, 1, Len(s)) = s

(***************************************************************************)
(* Errors                                                                  *)
(***************************************************************************)
\* new ProcessingError(message, cause): no throw site passes the third
\* (options) argument, so `stage` is options?.stage = undefined.
ProcessingError(message, cause) ==
    [name |-> "ProcessingError", message |-> message, cause |-> cause,
     stage |-> Undefined]
\* An error that is not a ProcessingError (TypeError, RangeError, ...).
ForeignError(name, message) ==
    [name |-> name, message |-> message, cause |-> None, stage |-> Undefined]
InstanceOfProcessingError(e) == e.name = "ProcessingError"


\* The outcome of a call: a value, or a thrown error / rejected promise.
Ok(v) == [ok |-> TRUE, value |-> Some(v), error |-> None]
Throw(e) == [ok |-> FALSE, value |-> None, error |-> Some(e)]
NoOutcome == [ok |-> TRUE, value |-> None, error |-> None]

(***************************************************************************)
(* Inputs                                                                  *)
(***************************************************************************)
Pipelines == {1, 2}

\* Largest number of stitch positions the planner lays out for an image.
MaxPlanned == 11

\* minStitches of optimizePattern.
minStitches == 10

\* The positions and types generateStitches lays out for an image: an initial
\* Jump, Normal points, and a terminal Jump duplicating the last point.  With
\* `dup` two consecutive Normal points coincide; `bad`, when not finite, is
\* the x coordinate of the first contour point, which the initial Jump copies.
PlannedPos(n, dup, i) ==
    LET j == IF i = n /\ n > 1 THEN n - 1 ELSE i
    IN  IF dup /\ j >= 4 THEN j - 1 ELSE j
Planned(n, dup, bad) ==
    [i \in 1..n |->
        [x |-> IF i = 1 /\ ~IsFiniteNumber(bad) THEN bad ELSE Fin(PlannedPos(n, dup, i)),
         y |-> Fin(0),
         type |-> IF i = 1 \/ i = n THEN "jump" ELSE "normal"]]
Geometries ==
    {Planned(n, dup, Fin(0)) :
        n \in {0, 1} \cup ((MaxPlanned - 2)..MaxPlanned), dup \in BOOLEAN}
    \cup {Planned(MaxPlanned, FALSE, bad) : bad \in {NaN, PosInfinity, NegInfinity}}

\* The used-color lists the quantizer returns.
ColorLists == {<<"#000000">>, <<"#000000", "#FFFFFF">>}

BaseImage(colors, planned) ==
    [valid |-> "ok", quant |-> "ok", colors |-> colors, bitmap |-> "ok",
     edges |-> "ok", tracer |-> "ok", planner |-> "ok", planned |-> planned]
GoodImage == BaseImage(<<"#000000">>, Planned(MaxPlanned, FALSE, Fin(0)))
\* Images given by their pixels: images of one color, an image too small for
\* the bitmap stage, a single white pixel on black, and a black and a white
\* half.
PixelImages ==
    LET WithPixels(width, height, data) ==
            [k \in DOMAIN GoodImage \cup {"width", "height", "data"} |->
                CASE k = "width" -> width
                  [] k = "height" -> height
                  [] k = "data" -> data
                  [] OTHER -> GoodImage[k]]
        Rgba(r, g, b, a) == [r |-> r, g |-> g, b |-> b, a |-> a]
        black == Rgba(0, 0, 0, 255)
        white == Rgba(255, 255, 255, 255)
    IN  {WithPixels(sz[1], sz[2], [i \in 1..(sz[1] * sz[2]) |-> px]) :
            sz \in {<<3, 3>>, <<4, 3>>},
            px \in {white, Rgba(200, 30, 30, 255), Rgba(10, 10, 10, 128)}}
        \cup {WithPixels(2, 3, [i \in 1..6 |-> black]),
              WithPixels(3, 3, [i \in 1..9 |-> IF i = 5 THEN white ELSE black]),
              WithPixels(4, 3, [i \in 1..12 |-> IF (i - 1) % 4 < 2 THEN black ELSE white])}
Images ==
    {BaseImage(c, g) : c \in ColorLists, g \in Geometries}
    \cup {[GoodImage EXCEPT !.valid = v] : v \in {"nodata", "zerodim"}}
    \cup {[GoodImage EXCEPT !.quant = "err"]}
    \cup {[GoodImage EXCEPT !.bitmap = "pe"]}
    \cup {[GoodImage EXCEPT !.edges = "pe"]}
    \cup {[GoodImage EXCEPT !.tracer = v] : v \in {"empty", "pe", "err"}}
    \cup {[GoodImage EXCEPT !.planner = "err"]}
    \cup PixelImages

\* The settings argument of convertImage.
CallerSettings ==
    {[width |-> 100, height |-> 80, density |-> 2, angle |-> 45,
      underlay |-> TRUE, pullCompensation |-> 1, color |-> "#FF0000",
      edgeThreshold |-> 100]}
\* The calls of convertImage: every image with the settings above, and one
\* call that also asks for the color mode.
ConvertParams ==
    {[imageData |-> i, settings |-> s] : i \in Images, s \in CallerSettings}
    \cup {[imageData |-> GoodImage,
           settings |-> [width |-> 100, height |-> 80, density |-> 2, angle |-> 405,
                         underlay |-> TRUE, pullCompensation |-> 1, color |-> "#FF0000",
                         edgeThreshold |-> 100, colorMode |-> "color"]]}

(***************************************************************************)
(* ConversionManager.sanitizeSettings                                      *)
(***************************************************************************)
Min(a, b) == IF a < b THEN a ELSE b
Max(a, b) == IF a > b THEN a ELSE b
Abs(v) == IF v < 0 THEN -v ELSE v
\* Math.ceil(a / b) for a >= 0, b > 0.
CeilDiv(a, b) == (a + b - 1) \div b
\* Math.round(a / b) for b > 0: the nearest integer, a half going up.
RoundDiv(a, b) == (2 * a + b) \div (2 * b)
MinOf(S) == CHOOSE v \in S : \A w \in S : v <= w
MaxOf(S) == CHOOSE v \in S : \A w \in S : v >= w
\* JS remainder: the result has the sign of the dividend.
JsRem(a, n) == IF a >= 0 THEN a % n ELSE -((-a) % n)
\* The strings matching /^#[0-9A-Fa-f]{6}$/ among the colors used here.
HexColors == {"#000000", "#404040", "#808080", "#C0C0C0", "#FFFFFF", "#FF0000",
              "#00FF00", "#0000FF", "#ffff00", "#00FFFF", "#FF00FF"}
MatchesHexColor(c) == c \in HexColors
\* settings.edgeThreshold || 128
EdgeThresholdOrDefault(s) ==
    IF "edgeThreshold" \notin DOMAIN s \/ s.edgeThreshold = 0 THEN 128
    ELSE s.edgeThreshold
\* A variant that mirrors the angle instead of only reducing it.
NormalizeAngleMirrored(a) == JsRem(JsRem(360 - a, 360) + 360, 360)
\* ((angle % 360) + 360) % 360
NormalizeAngle(a) == JsRem(JsRem(a, 360) + 360, 360)
\* Boolean(settings[key]) of a boolean or of a missing field.
ToBoolean(s, key) == IF key \in DOMAIN s THEN s[key] ELSE FALSE
\* settings.color?.match(/^#[0-9A-Fa-f]{6}$/) ? settings.color : '#000000'
ColorOrBlack(s) ==
    IF "color" \in DOMAIN s /\ MatchesHexColor(s.color) THEN s.color ELSE "#000000"
sanitizeSettings(s) ==
    [width |-> Max(10, Min(1000, s.width)),
     height |-> Max(10, Min(1000, s.height)),
     density |-> Max(1, Min(5, s.density)),
     angle |-> NormalizeAngle(s.angle),
     underlay |-> ToBoolean(s, "underlay"),
     pullCompensation |-> Max(0, Min(100, s.pullCompensation)),
     color |-> ColorOrBlack(s),
     edgeThreshold |-> Max(64, Min(192, EdgeThresholdOrDefault(s)))]
\* The sanitizer of the manager working on ProcessingSettings: it keeps every
\* field of its argument ({...settings, ...}) and replaces these eight.
sanitizeProcessingSettings(s) ==
    LET replaced ==
            [width |-> Max(10, Min(1000, s.width)),
             height |-> Max(10, Min(1000, s.height)),
             density |-> Max(1, Min(5, s.density)),
             fillAngle |-> NormalizeAngle(s.fillAngle),
             useUnderlay |-> ToBoolean(s, "useUnderlay"),
             pullCompensation |-> Max(0, Min(100, s.pullCompensation)),
             color |-> ColorOrBlack(s),
             edgeThreshold |-> Max(64, Min(192, EdgeThresholdOrDefault(s)))]
    IN  [k \in DOMAIN s \cup DOMAIN replaced |->
            IF k \in DOMAIN replaced THEN replaced[k] ELSE s[k]]

(***************************************************************************)
(* The stages                                                              *)
(***************************************************************************)
StageNames == <<"processing", "bitmap", "edges", "contours", "generating", "optimizing">>
StageComponents == <<"ColorProcessor", "BitmapProcessor", "EdgeProcessor",
                     "ContourProcessor", "StitchGenerator", "StitchOptimizer">>
NumStages == Len(StageNames)

Buffer(img, form) == [img |-> img, form |-> form]

\* An image is described either by what the stages make of it (the fields
\* quant, colors, bitmap, edges, ...) or, in addition, by its pixels: width,
\* height and data, the RGBA pixels in row-major order.  The stages compute
\* on the pixels when they are given.
THREAD_COLORS ==
    << [hex |-> "#000000", r |-> 0, g |-> 0, b |-> 0],
       [hex |-> "#404040", r |-> 64, g |-> 64, b |-> 64],
       [hex |-> "#808080", r |-> 128, g |-> 128, b |-> 128],
       [hex |-> "#C0C0C0", r |-> 192, g |-> 192, b |-> 192],
       [hex |-> "#FFFFFF", r |-> 255, g |-> 255, b |-> 255],
       [hex |-> "#FF0000", r |-> 255, g |-> 0, b |-> 0],
       [hex |-> "#00FF00", r |-> 0, g |-> 255, b |-> 0],
       [hex |-> "#0000FF", r |-> 0, g |-> 0, b |-> 255],
       [hex |-> "#FFFF00", r |-> 255, g |-> 255, b |-> 0],
       [hex |-> "#00FFFF", r |-> 0, g |-> 255, b |-> 255],
       [hex |-> "#FF00FF", r |-> 255, g |-> 0, b |-> 255] >>
GRAYSCALE_COLORS == SubSeq(THREAD_COLORS, 1, 5)

\* Math.round(r * 0.299 + g * 0.587 + b * 0.114).  The pixels used here keep
\* the weighted sum away from a half, where the floating-point sum decides.
Luminance(px) == RoundDiv(299 * px.r + 587 * px.g + 114 * px.b, 1000)

\* calculateColorDistance between two greys (g,g,g) and (p,p,p): there
\* dl = g - p, dc = sqrt(2) * (g - p) and dh = 0, so the distance is
\* |g - p| * sqrt(1 + 2 / (1 + 0.045 * sqrt(2) * g)^2).  findClosestColor
\* compares distances from one and the same color1, for which the second
\* factor is the same: the distance is given here without that factor.
calculateColorDistance(color1, color2) == Abs(color1.r - color2.r)

\* Mutant of findClosestColor: `distance <= minDistance`, the last of the
\* nearest entries wins.
findClosestColorLastWins(color, palette) ==
    palette[CHOOSE i \in DOMAIN palette :
                \A j \in DOMAIN palette :
                    /\ calculateColorDistance(color, palette[i])
                            <= calculateColorDistance(color, palette[j])
                    /\ j > i => calculateColorDistance(color, palette[j])
                                    > calculateColorDistance(color, palette[i])]

\* findClosestColor: the scan replaces the closest entry only on a strictly
\* smaller distance, so the first of the nearest entries wins.
findClosestColor(color, palette) ==
    palette[CHOOSE i \in DOMAIN palette :
                \A j \in DOMAIN palette :
                    /\ calculateColorDistance(color, palette[i])
                            <= calculateColorDistance(color, palette[j])
                    /\ j < i => calculateColorDistance(color, palette[j])
                                    > calculateColorDistance(color, palette[i])]

\* ColorProcessor.processImage has no try/catch and throws no ProcessingError;
\* a failure of it (an ImageData that cannot be built) is a foreign error.
\* In grayscale mode it works on a copy of the buffer, replaces r, g, b of
\* every pixel by the closest of GRAYSCALE_COLORS to its luminance and
\* collects the hex codes in a Set, which keeps the order of insertion.
processImage(imageData, colorMode) ==
    IF "data" \in DOMAIN imageData /\ colorMode = "grayscale"
    THEN LET processed == imageData.data
             threadColor ==
                [i \in DOMAIN processed |->
                    LET gray == Luminance(processed[i])
                    IN  findClosestColor([r |-> gray, g |-> gray, b |-> gray],
                                         GRAYSCALE_COLORS)]
             added == {i \in DOMAIN processed :
                         \A j \in 1..(i - 1) : threadColor[j].hex # threadColor[i].hex}
             usedColors ==
                [k \in 1..Cardinality(added) |->
                    threadColor[CHOOSE i \in added :
                                    Cardinality({j \in added : j <= i}) = k].hex]
         IN  Ok([processedData |->
                    Buffer([imageData EXCEPT !.data =
                                [i \in DOMAIN processed |->
                                    [r |-> threadColor[i].r, g |-> threadColor[i].g,
                                     b |-> threadColor[i].b, a |-> processed[i].a]]],
                           "quantized"),
                 colors |-> usedColors])
    ELSE IF imageData.quant = "err"
    THEN Throw(ForeignError("RangeError", "Invalid ImageData"))
    ELSE Ok([processedData |-> Buffer(imageData, "quantized"),
             colors |-> imageData.colors])

\* BitmapProcessor.normalizeImage: histogram equalization of the r, g, b
\* channels over the histogram of round((r + g + b) / 3).  cdf[v] counts the
\* pixels whose value is at most v, cdfMin is the first positive entry and
\* cdfMax = cdf[255] the number of pixels.  When all pixels share one value
\* the range is 0 and the quotient is NaN or -Infinity; the Uint8ClampedArray
\* stores both, like every negative number, as 0.
normalizeImage(data) ==
    LET value(i) == RoundDiv(data[i].r + data[i].g + data[i].b, 3)
        cdf(v) == Cardinality({i \in DOMAIN data : value(i) <= v})
        cdfMin == cdf(MinOf({value(i) : i \in DOMAIN data}))
        range == Len(data) - cdfMin
        equalized(v) == IF range = 0 \/ cdf(v) <= cdfMin THEN 0
                        ELSE Min(255, RoundDiv((cdf(v) - cdfMin) * 255, range))
    IN  [i \in DOMAIN data |->
            [r |-> equalized(data[i].r), g |-> equalized(data[i].g),
             b |-> equalized(data[i].b), a |-> data[i].a]]

\* BitmapProcessor.enhanceContrast: round(((v - min) / range) ^ (1 / 1.2) * 255)
\* with range = max - min || 1.  The lowest level gives 0 and the highest,
\* when it differs, 255; the images here have no level strictly between.
enhanceContrast(gray, min, max) ==
    [i \in DOMAIN gray |-> IF gray[i] = min THEN 0 ELSE CASE gray[i] = max -> 255]

\* BitmapProcessor.adjustBrightness: min(255, round(v * (128 / mean))) with
\* mean = sum / n.
adjustBrightness(gray, sum, n) ==
    [i \in DOMAIN gray |-> Min(255, RoundDiv(gray[i] * 128 * n, sum))]

\* BitmapProcessor.reduceNoise: the median of the 3x3 window around each
\* pixel, the window being clamped at the borders of the image.
reduceNoise(gray, width, height) ==
    [i \in DOMAIN gray |->
        LET x == (i - 1) % width
            y == (i - 1) \div width
            window == (-1..1) \X (-1..1)
            at(wd) == gray[Min(Max(y + wd[2], 0), height - 1) * width
                            + Min(Max(x + wd[1], 0), width - 1) + 1]
        IN  CHOOSE median \in {at(wd) : wd \in window} :
                /\ Cardinality({wd \in window : at(wd) < median}) <= 4
                /\ Cardinality({wd \in window : at(wd) <= median}) >= 5]

\* BitmapProcessor.createBitmap turns every failure into a ProcessingError.
createBitmap(imageData) ==
    IF "data" \in DOMAIN imageData.img
    THEN LET img == imageData.img
             n == img.width * img.height
             normalized == normalizeImage(img.data)
             gray == [i \in DOMAIN normalized |->
                        RoundDiv(2126 * normalized[i].r + 7152 * normalized[i].g
                                    + 722 * normalized[i].b, 10000)]
             min == MinOf({gray[i] : i \in DOMAIN gray} \cup {255})
             max == MaxOf({gray[i] : i \in DOMAIN gray} \cup {0})
             RECURSIVE SumTo(_)
             SumTo(k) == IF k = 0 THEN 0 ELSE gray[k] + SumTo(k - 1)
             sum == SumTo(Len(gray))
             bitmap == IF max - min < 20 THEN enhanceContrast(gray, min, max)
                       ELSE IF sum < 20 * n \/ sum > 235 * n
                       THEN adjustBrightness(gray, sum, n)
                       ELSE reduceNoise(gray, img.width, img.height)
         IN  IF img.width < 3 \/ img.height < 3
             THEN Throw(ProcessingError("Image is too small for processing", None))
             ELSE Ok(Buffer([img EXCEPT !.data =
                                [i \in DOMAIN gray |->
                                    [r |-> bitmap[i], g |-> bitmap[i], b |-> bitmap[i],
                                     a |-> normalized[i].a]]],
                            "bitmap"))
    ELSE IF imageData.img.bitmap = "pe"
    THEN Throw(ProcessingError("Image is too small for processing", None))
    ELSE Ok(Buffer(imageData.img, "bitmap"))

\* EdgeProcessor.applyKernel around the pixel with (1-based) index i.
applyKernel(gray, width, i, kernel) ==
    kernel[1][1] * gray[i - width - 1] + kernel[1][2] * gray[i - width]
        + kernel[1][3] * gray[i - width + 1]
        + kernel[2][1] * gray[i - 1] + kernel[2][2] * gray[i] + kernel[2][3] * gray[i + 1]
        + kernel[3][1] * gray[i + width - 1] + kernel[3][2] * gray[i + width]
        + kernel[3][3] * gray[i + width + 1]

\* The pixels the loops `for y = 1 .. height - 2, for x = 1 .. width - 2` visit.
Interior(width, height) ==
    {y * width + x + 1 : x \in 1..(width - 2), y \in 1..(height - 2)}

\* Mutant of nonMaximumSuppression: a pixel is kept only when it is
\* strictly greater than every neighbour.
nonMaximumSuppressionStrict(data, width, height) ==
    [i \in DOMAIN data |->
        IF /\ i \in Interior(width, height)
           /\ data[i].r # 0
           /\ \A n \in {i + dy * width + dx : dx \in -1..1, dy \in -1..1} \ {i} :
                    data[i].r > data[n].r
        THEN [r |-> 255, g |-> 255, b |-> 255, a |-> 255]
        ELSE [r |-> 0, g |-> 0, b |-> 0, a |-> 0]]

\* EdgeProcessor.nonMaximumSuppression: a fresh all-zero buffer in which an
\* interior pixel becomes white when it is not 0 and no neighbour of its
\* 3x3 window is greater (isLocalMaximum).
nonMaximumSuppression(data, width, height) ==
    [i \in DOMAIN data |->
        IF /\ i \in Interior(width, height)
           /\ data[i].r # 0
           /\ \A n \in {i + dy * width + dx : dx \in -1..1, dy \in -1..1} \ {i} :
                    data[i].r >= data[n].r
        THEN [r |-> 255, g |-> 255, b |-> 255, a |-> 255]
        ELSE [r |-> 0, g |-> 0, b |-> 0, a |-> 0]]

\* Mutant of EdgeGuard: the zero-edge check is missing.
EdgeGuardZeroUnchecked(edgePixels, totalPixels) ==
    IF edgePixels * 100 > 50 * totalPixels
    THEN Some("Too many edges detected. Try increasing the threshold or using a cleaner image.")
    ELSE None

\* Mutant of EdgeGuard: `edgePercentage >= 50`.
EdgeGuardHalfIsTooMany(edgePixels, totalPixels) ==
    IF edgePixels = 0
    THEN Some("No edges detected. Try adjusting the threshold or using an image with more contrast.")
    ELSE IF edgePixels * 100 >= 50 * totalPixels
    THEN Some("Too many edges detected. Try increasing the threshold or using a cleaner image.")
    ELSE None

\* The validation of the Sobel result: the message of the error thrown, if
\* any.  (edgePixels / totalPixels) * 100 > 50 is taken without the division.
EdgeGuard(edgePixels, totalPixels) ==
    IF edgePixels = 0
    THEN Some("No edges detected. Try adjusting the threshold or using an image with more contrast.")
    ELSE IF edgePixels * 100 > 50 * totalPixels
    THEN Some("Too many edges detected. Try increasing the threshold or using a cleaner image.")
    ELSE None

\* EdgeProcessor.detectEdges turns every failure into a ProcessingError.
\* magnitude > threshold is sqrt(gx^2 + gy^2) > threshold.
detectEdges(imageData, threshold) ==
    IF "data" \in DOMAIN imageData.img
    THEN LET img == imageData.img
             width == img.width
             height == img.height
             grayscale == [i \in DOMAIN img.data |-> Luminance(img.data[i])]
             sobelX == <<<<-1, 0, 1>>, <<-2, 0, 2>>, <<-1, 0, 1>>>>
             sobelY == <<<<-1, -2, -1>>, <<0, 0, 0>>, <<1, 2, 1>>>>
             isEdge(i) ==
                LET gx == applyKernel(grayscale, width, i, sobelX)
                    gy == applyKernel(grayscale, width, i, sobelY)
                IN  threshold < 0 \/ gx * gx + gy * gy > threshold * threshold
             edgePixels == Cardinality({i \in Interior(width, height) : isEdge(i)})
             totalPixels == (width - 2) * (height - 2)
             edgeMap == [i \in DOMAIN img.data |->
                          IF i \in Interior(width, height)
                          THEN LET v == IF isEdge(i) THEN 255 ELSE 0
                               IN  [r |-> v, g |-> v, b |-> v, a |-> 255]
                          ELSE [r |-> 0, g |-> 0, b |-> 0, a |-> 0]]
             thinned == nonMaximumSuppression(edgeMap, width, height)
             finalEdgeCount == Cardinality({i \in DOMAIN thinned : thinned[i].r = 255})
         IN  IF width < 3 \/ height < 3
             THEN Throw(ProcessingError("Image is too small for edge detection", None))
             ELSE IF EdgeGuard(edgePixels, totalPixels) # None
             THEN Throw(ProcessingError(EdgeGuard(edgePixels, totalPixels)[1], None))
             ELSE IF finalEdgeCount < 100
             THEN Throw(ProcessingError("Not enough significant edges found. Try adjusting the threshold or using an image with clearer shapes.", None))
             ELSE Ok(Buffer([img EXCEPT !.data = thinned], "edges"))
    ELSE IF imageData.img.edges = "pe"
    THEN Throw(ProcessingError("No edges detected. Try adjusting the threshold or using an image with more contrast.", None))
    ELSE Ok(Buffer(imageData.img, "edges"))

\* ContourProcessor.traceContours: a list of contours, possibly empty.
traceContours(edges) ==
    CASE edges.img.tracer = "pe" -> Throw(ProcessingError("Contour tracing failed", None))
      [] edges.img.tracer = "err" -> Throw(ForeignError("TypeError", "Cannot read properties of undefined"))
      [] edges.img.tracer = "empty" -> Ok(<<>>)
      [] OTHER -> Ok(<<Buffer(edges.img, "contour")>>)

\* Planner geometry.  A contour given by its vertices is [points |-> <<...>>];
\* coordinates, spacing and positions are in hundredths of a millimetre, and
\* angles are multiples of 90 degrees, for which the direction of the
\* scanlines is a unit vector along an axis.
Cos(angle) == CASE JsRem(angle, 360) = 0 -> 1
                [] JsRem(angle, 360) \in {180, -180} -> -1
                [] OTHER -> 0
Sin(angle) == CASE JsRem(angle, 360) \in {90, -270} -> 1
                [] JsRem(angle, 360) \in {270, -90} -> -1
                [] OTHER -> 0
\* Math.ceil(Math.sqrt(squared) / spacing) for spacing > 0.
CeilSqrtDiv(squared, spacing) ==
    CHOOSE n \in 0..(squared + 1) :
        /\ (n * spacing) * (n * spacing) >= squared
        /\ n > 0 => ((n - 1) * spacing) * ((n - 1) * spacing) < squared
\* start + (end - start) * (step / steps)
Interpolate(start, end, step, steps) == start + RoundDiv((end - start) * step, steps)
\* The Normal stitches from start (excluded) to end (included).
NormalsBetween(start, end, steps, color) ==
    [step \in 1..steps |->
        [x |-> Interpolate(start.x, end.x, step, steps),
         y |-> Interpolate(start.y, end.y, step, steps),
         type |-> "normal", color |-> color]]
SquaredDistance(a, b) == (b.x - a.x) * (b.x - a.x) + (b.y - a.y) * (b.y - a.y)

\* spacing of generateStitches: Math.max(0.3, baseSpacing / density) with
\* baseSpacing = sqrt(area / targetStitchCount), rounded down to hundredths.
Spacing(s) ==
    LET area == s.width * s.height
        targetStitchCount == Min(15000, area * s.density)
        squared == (10000 * area)
                       \div (targetStitchCount * s.density * s.density)
        base == CHOOSE r \in 0..squared : r * r <= squared /\ (r + 1) * (r + 1) > squared
    IN  Max(30, base)

\* Mutant of generateOutlineStitches: the Jump to the first vertex is
\* left out.
generateOutlineStitchesWithoutJump(points, spacing, color) ==
    LET RECURSIVE Walk(_)
        Walk(i) ==
            IF i > Len(points) THEN <<>>
            ELSE LET squared == SquaredDistance(points[i - 1], points[i])
                 IN  (IF squared < spacing * spacing THEN <<>>
                      ELSE NormalsBetween(points[i - 1], points[i],
                                          CeilSqrtDiv(squared, spacing), color))
                     \o Walk(i + 1)
    IN  Walk(2)

\* StitchGenerator.generateOutlineStitches.
generateOutlineStitches(points, spacing, color) ==
    LET RECURSIVE Walk(_)
        Walk(i) ==
            IF i > Len(points) THEN <<>>
            ELSE LET start == points[i - 1]
                     end == points[i]
                     squared == SquaredDistance(start, end)
                 IN  (IF squared < spacing * spacing THEN <<>>
                      ELSE NormalsBetween(start, end, CeilSqrtDiv(squared, spacing), color))
                     \o Walk(i + 1)
    IN  IF Len(points) = 0 THEN <<>>
        ELSE <<[x |-> points[1].x, y |-> points[1].y, type |-> "jump", color |-> color]>>
             \o Walk(2)

\* Array.prototype.sort with the comparator of generateFillStitches: a stable
\* sort by the projection onto the fill direction, descending when reversed.
RECURSIVE SortAlong(_, _, _, _)
SortAlong(points, dirX, dirY, isReversed) ==
    IF Len(points) <= 1 THEN points
    ELSE LET Key(pt) == (pt.x * dirX + pt.y * dirY) * (IF isReversed THEN -1 ELSE 1)
             sorted == SortAlong(SubSeq(points, 1, Len(points) - 1), dirX, dirY, isReversed)
             last == points[Len(points)]
             before == Cardinality({k \in DOMAIN sorted : Key(sorted[k]) <= Key(last)})
         IN  SubSeq(sorted, 1, before) \o <<last>> \o SubSeq(sorted, before + 1, Len(sorted))

\* The number of rounds of `for (j = 0; j < intersections.length - 1; j += 2)`.
PairsOf(n) == n \div 2

\* StitchGenerator.generateFillStitches (with calculateBounds, findIntersections
\* and lineIntersection).  A scanline spans the bounding box, so whether it
\* meets an edge is decided by ub, the position of the meeting point on the
\* edge.
generateFillStitches(contours, s) ==
    LET dirX == Cos(s.angle)
        dirY == Sin(s.angle)
        spacing == s.spacing
        xs == UNION {{contours[c].points[i].x : i \in DOMAIN contours[c].points} :
                        c \in DOMAIN contours}
        ys == UNION {{contours[c].points[i].y : i \in DOMAIN contours[c].points} :
                        c \in DOMAIN contours}
        diagonalSquared == (MaxOf(xs) - MinOf(xs)) * (MaxOf(xs) - MinOf(xs))
                               + (MaxOf(ys) - MinOf(ys)) * (MaxOf(ys) - MinOf(ys))
        numLines == CeilSqrtDiv(diagonalSquared, spacing)
        center == [x |-> (MinOf(xs) + MaxOf(xs)) \div 2, y |-> (MinOf(ys) + MaxOf(ys)) \div 2]
        lineIntersection(offset, p3, p4) ==
            LET d == (p4.y - p3.y) * dirX - (p4.x - p3.x) * dirY
                u == offset - ((p3.y - center.y) * dirX - (p3.x - center.x) * dirY)
                denominator == Abs(d)
                ub == IF d < 0 THEN -u ELSE u
            IN  IF denominator = 0 \/ ub < 0 \/ ub > denominator THEN <<>>
                ELSE <<[x |-> p3.x + RoundDiv((p4.x - p3.x) * ub, denominator),
                        y |-> p3.y + RoundDiv((p4.y - p3.y) * ub, denominator)]>>
        RECURSIVE OnContour(_, _, _)
        OnContour(offset, points, i) ==
            IF i >= Len(points) THEN <<>>
            ELSE lineIntersection(offset, points[i], points[i + 1])
                 \o OnContour(offset, points, i + 1)
        RECURSIVE findIntersections(_, _)
        findIntersections(offset, c) ==
            IF c > Len(contours) THEN <<>>
            ELSE OnContour(offset, contours[c].points, 1) \o findIntersections(offset, c + 1)
        RECURSIVE Pairs(_, _)
        Pairs(intersections, j) ==
            IF j > PairsOf(Len(intersections)) THEN <<>>
            ELSE LET start == intersections[2 * j - 1]
                     end == intersections[2 * j]
                     steps == Max(1, CeilSqrtDiv(SquaredDistance(start, end), spacing))
                 IN  <<[x |-> start.x, y |-> start.y, type |-> "jump",
                        color |-> s.color]>>
                     \o NormalsBetween(start, end, steps, s.color)
                     \o Pairs(intersections, j + 1)
        RECURSIVE Lines(_, _)
        Lines(i, isReversed) ==
            IF i > numLines THEN <<>>
            ELSE LET intersections == findIntersections(i * spacing, 1)
                 IN  IF Len(intersections) < 2 THEN Lines(i + 1, isReversed)
                     ELSE Pairs(SortAlong(intersections, dirX, dirY, isReversed), 1)
                          \o Lines(i + 1, ~isReversed)
    IN  Lines(-numLines, FALSE)

\* applyPullCompensation of the StitchGenerator that has one: every stitch is
\* moved by the compensation in x and in y.
applyPullCompensation(stitches, compensation) ==
    [k \in DOMAIN stitches |->
        [stitches[k] EXCEPT !.x = @ + compensation, !.y = @ + compensation]]

\* StitchGenerator.generateStitches: every stitch it pushes takes its color
\* from settings.color.
\* Without a contour the bounds are (Infinity, -Infinity) and the scanline
\* loop `for (i = -numLines; i <= numLines; i++)` never ends: the promise
\* never settles.
\* For contours given by their vertices the stitches are laid out as the
\* code lays them out; settings.pullCompensation is not read.
NeverSettles == [ok |-> FALSE, value |-> None, error |-> None]
Settled(out) == out.ok \/ out.error # None
generateStitches(p) ==
    IF Len(p.contours) = 0 THEN NeverSettles
    ELSE IF "points" \in DOMAIN p.contours[1]
    THEN LET contours == p.contours
             s == p.settings
             spacing == Spacing(s)
             With(angle, sp) ==
                [k \in DOMAIN s \cup {"spacing"} |->
                    CASE k = "spacing" -> sp
                      [] k = "angle" -> angle
                      [] OTHER -> s[k]]
             initial == IF Len(contours[1].points) > 0
                        THEN <<[x |-> contours[1].points[1].x,
                                y |-> contours[1].points[1].y,
                                type |-> "jump", color |-> s.color]>>
                        ELSE <<>>
             underlay == IF s.underlay
                         THEN generateFillStitches(contours,
                                  With(JsRem(s.angle + 90, 360), spacing * 2))
                         ELSE <<>>
             fill == generateFillStitches(contours, With(s.angle, spacing))
             RECURSIVE Outlines(_)
             Outlines(c) ==
                IF c > Len(contours) THEN <<>>
                ELSE generateOutlineStitches(contours[c].points, spacing, s.color)
                     \o Outlines(c + 1)
             stitches == initial \o underlay \o fill \o Outlines(1)
         IN  Ok(IF Len(stitches) > 0
                THEN Append(stitches, [stitches[Len(stitches)] EXCEPT !.type = "jump"])
                ELSE stitches)
    ELSE LET img == p.contours[1].img
         IN  IF img.planner = "err"
             THEN Throw(ForeignError("TypeError", "contour is not iterable"))
             ELSE Ok([i \in DOMAIN img.planned |->
                         [x |-> img.planned[i].x, y |-> img.planned[i].y,
                          type |-> img.planned[i].type,
                          color |-> Get(p.settings, "color")]])

\* StitchOptimizer.optimizeStitches: drops a Normal point that repeats the
\* previous Normal point and collapses a run of Jumps into its last Jump.
SamePosition(a, b) ==
    /\ IsFiniteNumber(a.x) /\ IsFiniteNumber(a.y)
    /\ IsFiniteNumber(b.x) /\ IsFiniteNumber(b.y)
    /\ a.x = b.x /\ a.y = b.y
RECURSIVE OptimizeFrom(_, _, _)
OptimizeFrom(stitches, i, out) ==
    IF i > Len(stitches) THEN out
    ELSE LET s == stitches[i]
             n == Len(out)
         IN  IF n > 0 /\ out[n].type = "normal" /\ s.type = "normal"
                /\ SamePosition(out[n], s)
             THEN OptimizeFrom(stitches, i + 1, out)
             ELSE IF n > 0 /\ out[n].type = "jump" /\ s.type = "jump"
             THEN OptimizeFrom(stitches, i + 1, [out EXCEPT ![n] = s])
             ELSE OptimizeFrom(stitches, i + 1, Append(out, s))
optimizeStitches(stitches) == OptimizeFrom(stitches, 1, <<>>)

(***************************************************************************)
(* ConversionPipeline                                                      *)
(***************************************************************************)
\* ConversionPipeline.validateInput, called by the constructor.
validateInput(imageData, s) ==
    IF imageData.valid = "nodata" THEN Some(ProcessingError("Invalid image data", None))
    ELSE IF imageData.valid = "zerodim" THEN Some(ProcessingError("Invalid image dimensions", None))
    ELSE IF {"width", "height", "density"} \ DOMAIN s # {} THEN Some(ProcessingError("Missing required setting", None))
    ELSE IF s.width <= 0 \/ s.height <= 0 THEN Some(ProcessingError("Invalid dimensions in settings", None))
    ELSE IF s.density <= 0 THEN Some(ProcessingError("Invalid density in settings", None))
    ELSE None

\* The state field of a freshly constructed pipeline: { imageData }.
NewState(imageData) ==
    [imageData |-> Some(imageData), processedImage |-> None, bitmap |-> None,
     edges |-> None, contours |-> None]
NoState ==
    [imageData |-> None, processedImage |-> None, bitmap |-> None,
     edges |-> None, contours |-> None]

\* Mutant of ThisState: one state object shared by the instances (a static
\* field), so an instance sees the buffers another instance has written.
SharedState(st, p) ==
    LET others == {q \in DOMAIN st \ {p} : st[q].processedImage # None}
    IN  IF others = {} THEN st[p] ELSE st[CHOOSE q \in others : TRUE]
\* this.state of pipeline instance p: each instance has its own state field.
ThisState(st, p) == st[p]

\* The settings object execute() hands to the stitch generator.
PlannerSettings(s, colors) ==
    [width |-> s.width, height |-> s.height, density |-> s.density,
     angle |-> Get(s, "fillAngle"), underlay |-> Get(s, "useUnderlay"),
     pullCompensation |-> s.pullCompensation, colors |-> colors]

\* The pattern execute() builds from the generated stitches (metadata.date,
\* the wall clock, is left out).
NewPattern(stitches, colors, s) ==
    [stitches |-> stitches, colors |-> colors,
     dimensions |-> [width |-> s.width, height |-> s.height],
     metadata |-> [name |-> "Converted Pattern", format |-> "internal"]]

\* !x?.length
IsEmptyList(list) == Len(list) = 0
\* Mutant of NoContoursFound: the empty-contours check is missing.
NoContoursFoundIgnored(contours) == FALSE
\* !this.state.contours?.length
NoContoursFound(contours) == IsEmptyList(contours)
\* Mutant of TooFewStitches: off by one.
TooFewStitchesOffByOne(n) == n < minStitches - 1
\* optimized.length < minStitches
TooFewStitches(n) == n < minStitches
\* optimized.some(stitch => isNaN(stitch.x) || isNaN(stitch.y))
hasInvalidCoords(stitches) ==
    \E i \in DOMAIN stitches : isNaN(stitches[i].x) \/ isNaN(stitches[i].y)

\* ConversionPipeline.optimizePattern.
optimizePattern(pattern) ==
    IF IsEmptyList(pattern.stitches)
    THEN Throw(ProcessingError("Invalid pattern for optimization", None))
    ELSE LET optimized == optimizeStitches(pattern.stitches)
         IN  IF IsEmptyList(optimized)
             THEN Throw(ProcessingError("Stitch optimization failed", None))
             ELSE IF TooFewStitches(Len(optimized))
             THEN Throw(ProcessingError("Pattern has too few stitches", None))
             ELSE IF hasInvalidCoords(optimized)
             THEN Throw(ProcessingError("Pattern contains invalid coordinates", None))
             ELSE Ok([pattern EXCEPT !.stitches = optimized])

\* The catch block of execute().
CatchExecute(e) ==
    IF InstanceOfProcessingError(e) THEN e
    ELSE ProcessingError("Conversion pipeline failed: " \o e.message, Some(e))
\* The catch block of convertImage().
CatchConvertImage(e) ==
    IF InstanceOfProcessingError(e) THEN e
    ELSE ProcessingError("Failed to convert image. Please try again with different settings or a different image.", Some(e))

\* Mutant of ExitThenEnter: the 100% callback of a stage is left out.
EnterWithoutExit(ok, k) ==
    IF ok /\ k < Len(StageNames) THEN <<<<StageNames[k + 1], 0>>>> ELSE <<>>
\* Mutant of ExitThenEnter: the 100% callback is made in a finally block, so
\* also when the stage failed.
ExitEvenOnFailure(ok, k) ==
    IF ~ok THEN <<<<StageNames[k], 100>>>>
    ELSE IF k < Len(StageNames) THEN <<<<StageNames[k], 100>>, <<StageNames[k + 1], 0>>>>
    ELSE <<<<StageNames[k], 100>>>>
\* The onProgress calls execute() makes when stage k has settled: none if the
\* stage failed (the throw leaves the try block), otherwise the 100% of
\* stage k followed by the 0% of the next stage.
ExitThenEnter(ok, k) ==
    IF ~ok THEN <<>>
    ELSE IF k < NumStages THEN <<<<StageNames[k], 100>>, <<StageNames[k + 1], 0>>>>
    ELSE <<<<StageNames[k], 100>>>>

ErrorResult(e) == [kind |-> "error", pattern |-> None, error |-> Some(e)]
PatternResult(pt) == [kind |-> "pattern", pattern |-> Some(pt), error |-> None]
NoResult == [kind |-> "none", pattern |-> None, error |-> None]

(***************************************************************************)
(* The conversion as a state machine.  execute() runs without interruption *)
(* up to each await and is resumed when the awaited stage has settled.     *)
(***************************************************************************)
Suspended(q) == pc[q] \notin {"idle", "done"}
\* History: a step of invocation p while another invocation is suspended.
Interleave(p) ==
    overlapped' = (overlapped \/ \E q \in Pipelines \ {p} : Suspended(q))

\* Mutant of Report: the manager keeps the first callback of a run of
\* callbacks instead of the last.
ReportFirstOfBatch(p, events) ==
    /\ progressLog' = [progressLog EXCEPT ![p] = @ \o events]
    /\ IF events = <<>>
       THEN UNCHANGED <<mgrStage, mgrProgress, mgrError>>
       ELSE /\ mgrStage' = events[1][1]
            /\ mgrProgress' = events[1][2]
            /\ mgrError' = None

\* The progress callback ConversionManager passes to the pipeline:
\* updateProgress(stage, progress) for each call, in order.
Report(p, events) ==
    /\ progressLog' = [progressLog EXCEPT ![p] = @ \o events]
    /\ IF events = <<>>
       THEN UNCHANGED <<mgrStage, mgrProgress, mgrError>>
       ELSE /\ mgrStage' = events[Len(events)][1]
            /\ mgrProgress' = events[Len(events)][2]
            /\ mgrError' = None

\* An error raised while stage k is running: execute()'s catch block, then
\* convertImage()'s catch block; the invocation ends.
Fail(p, k, e) ==
    /\ thrown' = [thrown EXCEPT ![p] = Some(e)]
    /\ failedStage' = [failedStage EXCEPT ![p] = k]
    /\ result' = [result EXCEPT ![p] = ErrorResult(CatchConvertImage(CatchExecute(e)))]
    /\ pc' = [pc EXCEPT ![p] = "done"]

Continue(p, next) ==
    /\ pc' = [pc EXCEPT ![p] = next]
    /\ UNCHANGED <<thrown, failedStage, result>>

\* convertImage(params) rejects the call before a pipeline exists: its own
\* input validation, or the pipeline constructor's.
ConvertImageRejected(p, prm) ==
    /\ pc[p] = "idle"
    /\ Interleave(p)
    /\ LET img == prm.imageData
           own == IF img.valid = "nodata" THEN Some(ProcessingError("No image data provided", None))
                  ELSE IF img.valid = "zerodim" THEN Some(ProcessingError("Invalid image dimensions", None))
                  ELSE None
           ctor == validateInput(img, sanitizeSettings(prm.settings))
           err == IF own # None THEN own ELSE ctor
       IN  /\ err # None
           /\ params' = [params EXCEPT ![p] = Some(prm)]
           /\ result' = [result EXCEPT ![p] = ErrorResult(CatchConvertImage(err[1]))]
           /\ pc' = [pc EXCEPT ![p] = "done"]
    /\ UNCHANGED <<state, settings, pending, stitchesLocal, progressLog, invoked,
                   thrown, failedStage, mgrStage, mgrProgress, mgrError>>
    /\ UNCHANGED <<fvars, cvars>>

\* convertImage(params): validation, sanitization, construction of the
\* pipeline, and execute() up to `await BitmapProcessor.createBitmap(...)`.
ConvertImage(p, prm) ==
    /\ pc[p] = "idle"
    /\ Interleave(p)
    /\ LET img == prm.imageData
           sanitized == sanitizeSettings(prm.settings)
           st0 == NewState(img)
           colorMode == IF "colorMode" \in DOMAIN sanitized THEN sanitized.colorMode
                        ELSE "grayscale"
           quantized == processImage(st0.imageData[1], colorMode)
       IN  /\ img.valid = "ok"
           /\ validateInput(img, sanitized) = None
           /\ params' = [params EXCEPT ![p] = Some(prm)]
           /\ settings' = [settings EXCEPT ![p] = Some(sanitized)]
           /\ IF quantized.ok
              THEN LET st1 == [st0 EXCEPT !.processedImage = quantized.value]
                   IN  /\ state' = [state EXCEPT ![p] = st1]
                       /\ Report(p, <<<<StageNames[1], 0>>>> \o ExitThenEnter(TRUE, 1))
                       /\ invoked' = [invoked EXCEPT ![p] = <<StageComponents[1], StageComponents[2]>>]
                       /\ pending' = [pending EXCEPT ![p] = createBitmap(st1.processedImage[1].processedData)]
                       /\ Continue(p, "awaitBitmap")
              ELSE /\ state' = [state EXCEPT ![p] = st0]
                   /\ Report(p, <<<<StageNames[1], 0>>>> \o ExitThenEnter(FALSE, 1))
                   /\ invoked' = [invoked EXCEPT ![p] = <<StageComponents[1]>>]
                   /\ Fail(p, 1, quantized.error[1])
                   /\ UNCHANGED pending
    /\ UNCHANGED stitchesLocal
    /\ UNCHANGED <<fvars, cvars>>

\* Resumption after createBitmap: bitmap 100%, edges 0%, call detectEdges.
AfterBitmap(p) ==
    /\ pc[p] = "awaitBitmap"
    /\ Interleave(p)
    /\ LET out == pending[p]
       IN  /\ Report(p, ExitThenEnter(out.ok, 2))
           /\ IF out.ok
              THEN /\ state' = [state EXCEPT ![p].bitmap = out.value]
                   /\ invoked' = [invoked EXCEPT ![p] = Append(@, StageComponents[3])]
                   /\ pending' = [pending EXCEPT ![p] =
                          detectEdges(out.value[1], EdgeThresholdOrDefault(settings[p][1]))]
                   /\ Continue(p, "awaitEdges")
              ELSE /\ Fail(p, 2, out.error[1])
                   /\ UNCHANGED <<state, invoked, pending>>
    /\ UNCHANGED <<params, settings, stitchesLocal>>
    /\ UNCHANGED <<fvars, cvars>>

\* Resumption after detectEdges: edges 100%, contours 0%, call traceContours.
AfterEdges(p) ==
    /\ pc[p] = "awaitEdges"
    /\ Interleave(p)
    /\ LET out == pending[p]
       IN  /\ Report(p, ExitThenEnter(out.ok, 3))
           /\ IF out.ok
              THEN /\ state' = [state EXCEPT ![p].edges = out.value]
                   /\ invoked' = [invoked EXCEPT ![p] = Append(@, StageComponents[4])]
                   /\ pending' = [pending EXCEPT ![p] = traceContours(out.value[1])]
                   /\ Continue(p, "awaitContours")
              ELSE /\ Fail(p, 3, out.error[1])
                   /\ UNCHANGED <<state, invoked, pending>>
    /\ UNCHANGED <<params, settings, stitchesLocal>>
    /\ UNCHANGED <<fvars, cvars>>

\* Resumption after traceContours: the empty-contours check, contours 100%,
\* generating 0%, call generateStitches.
AfterContours(p) ==
    /\ pc[p] = "awaitContours"
    /\ Interleave(p)
    /\ LET out == pending[p]
           found == out.ok /\ ~NoContoursFound(out.value[1])
       IN  /\ Report(p, ExitThenEnter(found, 4))
           /\ IF found
              THEN /\ state' = [state EXCEPT ![p].contours = out.value]
                   /\ invoked' = [invoked EXCEPT ![p] = Append(@, StageComponents[5])]
                   /\ pending' = [pending EXCEPT ![p] =
                          generateStitches(
                              [contours |-> out.value[1],
                               settings |-> PlannerSettings(settings[p][1],
                                   ThisState(state, p).processedImage[1].colors)])]
                   /\ Continue(p, "awaitStitches")
              ELSE /\ Fail(p, 4, IF out.ok THEN ProcessingError("No contours found in image", None)
                                 ELSE out.error[1])
                   /\ state' = IF out.ok THEN [state EXCEPT ![p].contours = out.value]
                               ELSE state
                   /\ UNCHANGED <<invoked, pending>>
    /\ UNCHANGED <<params, settings, stitchesLocal>>
    /\ UNCHANGED <<fvars, cvars>>

\* Resumption after generateStitches: the empty-stitches check, generating
\* 100%, optimizing 0%, the pattern, and the call of optimizePattern (which
\* has no await of its own and settles before execute() is resumed).
AfterGenerate(p) ==
    /\ pc[p] = "awaitStitches"
    /\ Interleave(p)
    /\ Settled(pending[p])
    /\ LET out == pending[p]
           generated == out.ok /\ ~IsEmptyList(out.value[1])
       IN  /\ Report(p, ExitThenEnter(generated, 5))
           /\ IF generated
              THEN /\ stitchesLocal' = [stitchesLocal EXCEPT ![p] = out.value[1]]
                   /\ invoked' = [invoked EXCEPT ![p] = Append(@, StageComponents[6])]
                   /\ pending' = [pending EXCEPT ![p] =
                          optimizePattern(NewPattern(out.value[1],
                              ThisState(state, p).processedImage[1].colors,
                              settings[p][1]))]
                   /\ Continue(p, "awaitOptimize")
              ELSE /\ Fail(p, 5, IF out.ok THEN ProcessingError("Failed to generate stitches", None)
                                 ELSE out.error[1])
                   /\ UNCHANGED <<stitchesLocal, invoked, pending>>
    /\ UNCHANGED <<params, settings, state>>
    /\ UNCHANGED <<fvars, cvars>>

\* Resumption after optimizePattern: optimizing 100%, execute() returns, and
\* convertImage() checks the result and returns it.
AfterOptimize(p) ==
    /\ pc[p] = "awaitOptimize"
    /\ Interleave(p)
    /\ LET out == pending[p]
       IN  /\ Report(p, ExitThenEnter(out.ok, 6))
           /\ IF out.ok
              THEN /\ result' = [result EXCEPT ![p] =
                          IF IsEmptyList(out.value[1].stitches)
                          THEN ErrorResult(ProcessingError("No stitches generated during conversion", None))
                          ELSE PatternResult(out.value[1])]
                   /\ pc' = [pc EXCEPT ![p] = "done"]
                   /\ UNCHANGED <<thrown, failedStage>>
              ELSE Fail(p, 6, out.error[1])
    /\ UNCHANGED <<params, settings, state, stitchesLocal, invoked, pending>>
    /\ UNCHANGED <<fvars, cvars>>

FormatIdle ==
    /\ fmtPc = "unused"
    /\ fmtPattern = None
    /\ fmtFormat = "none"
    /\ fmtWriterCalls = <<>>
    /\ fmtResult = NoResult
    /\ fmtEntry = "none"

ComponentIdle ==
    /\ callPc = "unused"
    /\ callArg = None
    /\ callResult = <<>>

PipelineIdle ==
    /\ pc = [p \in Pipelines |-> "idle"]
    /\ params = [p \in Pipelines |-> None]
    /\ state = [p \in Pipelines |-> NoState]
    /\ settings = [p \in Pipelines |-> None]
    /\ pending = [p \in Pipelines |-> NoOutcome]
    /\ stitchesLocal = [p \in Pipelines |-> <<>>]
    /\ progressLog = [p \in Pipelines |-> <<>>]
    /\ invoked = [p \in Pipelines |-> <<>>]
    /\ thrown = [p \in Pipelines |-> None]
    /\ failedStage = [p \in Pipelines |-> 0]
    /\ result = [p \in Pipelines |-> NoResult]
    /\ overlapped = FALSE
    /\ mgrStage = ""
    /\ mgrProgress = 0
    /\ mgrError = None

Init == PipelineIdle /\ FormatIdle /\ ComponentIdle

Next ==
    \E p \in Pipelines :
        \/ \E prm \in ConvertParams : ConvertImageRejected(p, prm)
        \/ \E prm \in ConvertParams : ConvertImage(p, prm)
        \/ AfterBitmap(p)
        \/ AfterEdges(p)
        \/ AfterContours(p)
        \/ AfterGenerate(p)
        \/ AfterOptimize(p)

Spec == Init /\ [][Next]_vars

(***************************************************************************)
(* Properties of the conversion pipeline                                   *)
(***************************************************************************)
SuccessSequence ==
    <<<<"processing", 0>>, <<"processing", 100>>, <<"bitmap", 0>>, <<"bitmap", 100>>,
      <<"edges", 0>>, <<"edges", 100>>, <<"contours", 0>>, <<"contours", 100>>,
      <<"generating", 0>>, <<"generating", 100>>, <<"optimizing", 0>>, <<"optimizing", 100>>>>
StageOrder ==
    <<"ColorProcessor", "BitmapProcessor", "EdgeProcessor", "ContourProcessor",
      "StitchGenerator", "StitchOptimizer">>
Reported(p, event) == \E i \in DOMAIN progressLog[p] : progressLog[p][i] = event
Invoked(p, component) == \E i \in DOMAIN invoked[p] : invoked[p][i] = component

\* C1: at every moment the progress callbacks made so far are an initial part
\* of (processing,0), (processing,100), ..., (optimizing,0), (optimizing,100)
\* and the stages called so far an initial part of the stage order; when
\* execute() has succeeded the callbacks are exactly those twelve and all six
\* stages ran, in order.
C1_ProgressSequence ==
    \A p \in Pipelines :
        /\ IsPrefix(progressLog[p], SuccessSequence)
        /\ IsPrefix(invoked[p], StageOrder)
        /\ result[p].kind = "pattern" =>
              /\ progressLog[p] = SuccessSequence
              /\ Len(progressLog[p]) = 12
              /\ invoked[p] = StageOrder
C1_Witness == \E p \in Pipelines : result[p].kind = "pattern"

\* C2: when stage k of execute() has failed, the caller got an error and no
\* pattern, the callbacks made are the success sequence up to and including
\* (stage k, 0) and no more, and only the stages 1..k were called.
C2_FailurePrefix ==
    \A p \in Pipelines :
        failedStage[p] > 0 =>
            /\ result[p].kind = "error"
            /\ result[p].pattern = None
            /\ progressLog[p] = SubSeq(SuccessSequence, 1, 2 * failedStage[p] - 1)
            /\ ~Reported(p, <<StageNames[failedStage[p]], 100>>)
            /\ invoked[p] = SubSeq(StageOrder, 1, failedStage[p])
C2_Witness ==
    \E p \in Pipelines :
        /\ failedStage[p] = 3
        /\ progressLog[p][Len(progressLog[p])] = <<"edges", 0>>

\* C3: when the contour tracer has returned an empty list, the conversion has
\* failed with the "No contours found" error, neither the stitch generator
\* nor the optimizer was called, and (contours,100) was not reported.
C3_NoContours ==
    \A p \in Pipelines :
        state[p].contours = Some(<<>>) =>
            /\ result[p].kind = "error"
            /\ InstanceOfProcessingError(result[p].error[1])
            /\ result[p].error[1].message = "No contours found in image"
            /\ ~Invoked(p, "StitchGenerator")
            /\ ~Invoked(p, "StitchOptimizer")
            /\ ~Reported(p, <<"contours", 100>>)
C3_Witness ==
    \E p \in Pipelines : state[p].contours = Some(<<>>) /\ pc[p] = "done"

\* C4: a returned pattern has at least 10 stitches; when the optimizer has
\* returned fewer than 10 stitches, (optimizing,100) is never reported and
\* the conversion ends with the "too few stitches" error.
OptimizerCalled(p) == Invoked(p, "StitchOptimizer")
C4_MinimumStitches ==
    \A p \in Pipelines :
        /\ result[p].kind = "pattern" => Len(result[p].pattern[1].stitches) >= 10
        /\ (OptimizerCalled(p) /\ Len(optimizeStitches(stitchesLocal[p])) < 10) =>
              /\ ~Reported(p, <<"optimizing", 100>>)
              /\ result[p].kind # "pattern"
              /\ pc[p] = "done" =>
                    /\ result[p].kind = "error"
                    /\ InstanceOfProcessingError(result[p].error[1])
                    /\ result[p].error[1].message = "Pattern has too few stitches"
C4_Witness ==
    \E p \in Pipelines :
        /\ pc[p] = "done"
        /\ OptimizerCalled(p)
        /\ Len(stitchesLocal[p]) >= 10
        /\ Len(optimizeStitches(stitchesLocal[p])) = 9

\* C5: a ProcessingError raised by a stage reaches the caller unchanged; any
\* other error reaches the caller as a ProcessingError whose cause is the
\* original error and whose stage is the name of the stage that was running.
C5_ErrorPropagation ==
    \A p \in Pipelines :
        (result[p].kind = "error" /\ thrown[p] # None) =>
            LET e == thrown[p][1]
                r == result[p].error[1]
            IN  IF InstanceOfProcessingError(e)
                THEN r = e
                ELSE /\ InstanceOfProcessingError(r)
                     /\ r.cause = Some(e)
                     /\ r.stage = StageNames[failedStage[p]]

\* C6: in a returned pattern the color of every stitch is one of
\* pattern.colors.
C6_StitchColorsListed ==
    \A p \in Pipelines :
        result[p].kind = "pattern" =>
            LET pt == result[p].pattern[1]
            IN  \A i \in DOMAIN pt.stitches : pt.stitches[i].color \in SeqToSet(pt.colors)

\* C7: in a returned pattern both coordinates of every stitch are finite, and
\* a conversion whose optimized stitches hold a NaN or an infinite coordinate
\* ends with the "invalid coordinates" error.
AllFinite(stitches) ==
    \A i \in DOMAIN stitches :
        IsFiniteNumber(stitches[i].x) /\ IsFiniteNumber(stitches[i].y)
AloneFailed(k, e) ==
    [result |-> ErrorResult(CatchConvertImage(CatchExecute(e))),
     log |-> SubSeq(SuccessSequence, 1, 2 * k - 1)]
RunAlone(prm) ==
    LET img == prm.imageData
        s == sanitizeSettings(prm.settings)
        q == processImage(img, "grayscale")
        b == createBitmap(q.value[1].processedData)
        e == detectEdges(b.value[1], EdgeThresholdOrDefault(s))
        c == traceContours(e.value[1])
        g == generateStitches([contours |-> c.value[1],
                               settings |-> PlannerSettings(s, q.value[1].colors)])
        o == optimizePattern(NewPattern(g.value[1], q.value[1].colors, s))
    IN  IF img.valid = "nodata"
        THEN [result |-> ErrorResult(ProcessingError("No image data provided", None)), log |-> <<>>]
        ELSE IF img.valid = "zerodim"
        THEN [result |-> ErrorResult(ProcessingError("Invalid image dimensions", None)), log |-> <<>>]
        ELSE IF ~q.ok THEN AloneFailed(1, q.error[1])
        ELSE IF ~b.ok THEN AloneFailed(2, b.error[1])
        ELSE IF ~e.ok THEN AloneFailed(3, e.error[1])
        ELSE IF ~c.ok THEN AloneFailed(4, c.error[1])
        ELSE IF Len(c.value[1]) = 0 THEN AloneFailed(4, ProcessingError("No contours found in image", None))
        ELSE IF ~g.ok THEN AloneFailed(5, g.error[1])
        ELSE IF Len(g.value[1]) = 0 THEN AloneFailed(5, ProcessingError("Failed to generate stitches", None))
        ELSE IF ~o.ok THEN AloneFailed(6, o.error[1])
        ELSE [result |-> PatternResult(o.value[1]), log |-> SuccessSequence]

\* C8: whatever the interleaving of the two invocations, each one reports an
\* initial part of the callbacks of its run alone and, once it has ended,
\* has returned the pattern or error and made exactly the callbacks of its
\* run alone.
C8_NoInterference ==
    \A p \in Pipelines :
        params[p] # None =>
            LET alone == RunAlone(params[p][1])
            IN  /\ IsPrefix(progressLog[p], alone.log)
                /\ pc[p] = "done" =>
                      /\ result[p] = alone.result
                      /\ progressLog[p] = alone.log
C8_Witness ==
    /\ overlapped
    /\ \A p \in Pipelines : pc[p] = "done" /\ result[p].kind = "pattern"
    /\ result[1].pattern[1].colors # result[2].pattern[1].colors

(***************************************************************************)
(* FormatConverter.convertToFormat                                         *)
(*                                                                         *)
(* A pattern is represented by what the validation, the limits check and   *)
(* the writer's precondition check read of it: the number of stitches,     *)
(* whether a stitch has a NaN coordinate, the number of colors, and the    *)
(* dimensions, in hundredths of a millimetre (0: a missing or zero         *)
(* dimension).  A pattern given in full has, in addition, the field        *)
(* `stitches`: its stitches, with coordinates in hundredths.               *)
(***************************************************************************)
Formats == {"dst", "pes", "jef", "exp", "vp3", "hus", "pat", "qcc"}

StitchCounts == {0, 1, 65536, 100001, 999999, 1000000, 1000001}
ColorCounts == {0, 1, 2, 100}
Widths == {0, 4, 1000, 4004, 4006, 10000, 26001, 40000, 40001}
Heights == {0, 1000, 4006, 40001}
FormatPatterns ==
    [stitchCount : StitchCounts, nanStitch : BOOLEAN, colorCount : ColorCounts,
     width : Widths, height : Heights]


\* Mutant of FORMAT_LIMITS: the jef row is a copy of the pes row.
FORMAT_LIMITS_JefCopiedFromPes(format) ==
    CASE format \in {"dst", "exp", "pat", "qcc"} ->
             [maxStitches |-> 999999, maxColors |-> 1, maxDimension |-> 400]
      [] OTHER ->
             [maxStitches |-> 100000, maxColors |-> 99, maxDimension |-> 260]
\* The number n in the fixed-point representation of coordinates and
\* dimensions (hundredths).
Num(n) == n * 100

\* FORMAT_LIMITS[format]; maxDimension is in millimetres.
FORMAT_LIMITS(format) ==
    CASE format \in {"dst", "exp", "pat", "qcc"} ->
             [maxStitches |-> 999999, maxColors |-> 1, maxDimension |-> 400]
      [] format \in {"pes", "vp3", "hus"} ->
             [maxStitches |-> 100000, maxColors |-> 99, maxDimension |-> 260]
      [] format = "jef" ->
             [maxStitches |-> 65535, maxColors |-> 99, maxDimension |-> 260]

\* FormatConverter.validatePattern: the error it throws, if any.
FormatValidatePattern(pattern) ==
    IF pattern.stitchCount = 0 THEN Some(ProcessingError("Pattern must contain stitches", None))
    ELSE IF pattern.width = 0 \/ pattern.height = 0
    THEN Some(ProcessingError("Pattern must have valid dimensions", None))
    ELSE IF pattern.colorCount = 0 THEN Some(ProcessingError("Pattern must have at least one color", None))
    ELSE IF pattern.nanStitch THEN Some(ProcessingError("Invalid coordinates in stitch at index", None))
    ELSE None

\* ColorProcessor.validateThreadColor applied to every color of the pattern:
\* each color is replaced by a palette color, the number of colors is kept.
WithValidatedColors(pattern) == pattern

\* FormatConverter.validateFormatLimits: the error it throws, if any.  The
\* dimensions are compared in millimetres.
validateFormatLimits(pattern, format) ==
    LET limits == FORMAT_LIMITS(format)
        maxDim == Max(pattern.width, pattern.height)
    IN  IF pattern.stitchCount > limits.maxStitches
        THEN Some(ProcessingError("Pattern has too many stitches for format", None))
        ELSE IF pattern.colorCount > limits.maxColors
        THEN Some(ProcessingError("Pattern has too many colors for format", None))
        ELSE IF maxDim > Num(limits.maxDimension)
        THEN Some(ProcessingError("Pattern dimensions exceed maximum allowed for format", None))
        ELSE None


\* Math.round(mm * 10) of a length given in hundredths of a millimetre.
RoundTimes10(hundredths) == (hundredths + 5) \div 10

\* The stitches of convertToMachineFormat: Math.round((x - minX) * 10) and
\* Math.round((y - minY) * 10), numbers of the machine pattern.
MachineStitches(stitches) ==
    LET minX == MinOf({stitches[i].x : i \in DOMAIN stitches})
        minY == MinOf({stitches[i].y : i \in DOMAIN stitches})
    IN  [i \in DOMAIN stitches |->
            [stitches[i] EXCEPT !.x = Num(RoundTimes10(@ - minX)),
                                !.y = Num(RoundTimes10(@ - minY))]]

\* FormatConverter.convertToMachineFormat: the dimensions become
\* Math.round(width * 10) and Math.round(height * 10).
convertToMachineFormat(pattern) ==
    LET scaled == [pattern EXCEPT !.width = Num(RoundTimes10(pattern.width)),
                                  !.height = Num(RoundTimes10(pattern.height))]
    IN  IF "stitches" \in DOMAIN pattern
        THEN [scaled EXCEPT !.stitches = MachineStitches(@)]
        ELSE scaled

PPMM == 10
MAX_JUMP == 121
MAX_STITCH == 121
HEADER_SIZE == 512
MAX_STITCHES == 999999

\* DSTWriter.validatePattern: the error it throws, if any.  It reads
\* pattern.dimensions as it is handed over.
DstValidatePattern(pattern) ==
    IF pattern.stitchCount = 0 THEN Some(ProcessingError("Pattern has no stitches", None))
    ELSE IF pattern.stitchCount > MAX_STITCHES
    THEN Some(ProcessingError("Pattern has too many stitches", None))
    ELSE IF pattern.nanStitch THEN Some(ProcessingError("Invalid coordinates at stitch", None))
    ELSE IF pattern.width = 0 \/ pattern.height = 0
    THEN Some(ProcessingError("Invalid pattern dimensions", None))
    ELSE IF pattern.width > Num(400) \/ pattern.height > Num(400)
    THEN Some(ProcessingError("Pattern dimensions exceed maximum size of 400mm", None))
    ELSE None

\* Mutant of normalizeCoordinates: the least coordinate is not subtracted.
normalizeCoordinatesUnshifted(pattern) ==
    LET stitches == pattern.stitches
    IN  [pattern EXCEPT !.stitches =
            [i \in DOMAIN stitches |->
                [stitches[i] EXCEPT !.x = RoundDiv(@ * PPMM, Num(1)),
                                    !.y = RoundDiv(@ * PPMM, Num(1))]]]

\* DSTWriter.normalizeCoordinates: Math.round((x - minX) * PPMM) and the same
\* for y; the results are integers.
normalizeCoordinates(pattern) ==
    LET stitches == pattern.stitches
        minX == MinOf({stitches[i].x : i \in DOMAIN stitches})
        minY == MinOf({stitches[i].y : i \in DOMAIN stitches})
    IN  [pattern EXCEPT !.stitches =
            [i \in DOMAIN stitches |->
                [stitches[i] EXCEPT !.x = RoundDiv((@ - minX) * PPMM, Num(1)),
                                    !.y = RoundDiv((@ - minY) * PPMM, Num(1))]]]

\* DSTWriter.calculateBounds.
calculateBounds(stitches) ==
    [minX |-> MinOf({stitches[i].x : i \in DOMAIN stitches}),
     maxX |-> MaxOf({stitches[i].x : i \in DOMAIN stitches}),
     minY |-> MinOf({stitches[i].y : i \in DOMAIN stitches}),
     maxY |-> MaxOf({stitches[i].y : i \in DOMAIN stitches})]

\* The number of characters of `${n}` for an integer n >= 0.
RECURSIVE DecimalLength(_)
DecimalLength(n) == IF n < 10 THEN 1 ELSE 1 + DecimalLength(n \div 10)

\* DSTWriter.createHeader: the values of the header lines, the length of the
\* header text (twelve lines, each followed by \r\n) and the size of the
\* buffer; the error it throws when the text is longer than the buffer.
createHeader(pattern) ==
    LET bounds == calculateBounds(pattern.stitches)
        lines == [ST |-> Len(pattern.stitches),
                  plusX |-> bounds.maxX, minusX |-> Abs(bounds.minX),
                  plusY |-> bounds.maxY, minusY |-> Abs(bounds.minY)]
        textLength == 88 + DecimalLength(lines.ST)
                         + DecimalLength(lines.plusX) + DecimalLength(lines.minusX)
                         + DecimalLength(lines.plusY) + DecimalLength(lines.minusY)
    IN  IF textLength > HEADER_SIZE
        THEN Throw(ProcessingError("Header size exceeds maximum allowed", None))
        ELSE Ok([lines |-> lines, textLength |-> textLength, byteLength |-> HEADER_SIZE])

\* Bit i of a byte, and the bitwise operators `|` and `&` on bytes.
Bit(v, i) == (v \div (2 ^ i)) % 2
BitOr(a, b) ==
    LET bit(i) == IF Bit(a, i) = 1 \/ Bit(b, i) = 1 THEN 2 ^ i ELSE 0
    IN  bit(0) + bit(1) + bit(2) + bit(3) + bit(4) + bit(5) + bit(6) + bit(7)
BitAnd(a, b) ==
    LET bit(i) == IF Bit(a, i) = 1 /\ Bit(b, i) = 1 THEN 2 ^ i ELSE 0
    IN  bit(0) + bit(1) + bit(2) + bit(3) + bit(4) + bit(5) + bit(6) + bit(7)

\* v & 0x0F
LowNibble(v) == BitAnd(v, 15)
\* Mutant of HighNibble: the high nibble is not shifted down.
HighNibbleUnshifted(v) == BitAnd(v, 240)
\* (v & 0xF0) >> 4
HighNibble(v) == BitAnd(v, 240) \div 16

\* The stitch type bits of encodeStitchDelta's switch.
TypeBits(type) ==
    CASE type = "jump" -> 131
      [] type = "stop" -> 195
      [] type = "end" -> 243
      [] OTHER -> 3

\* Mutant of encodeStitchDelta: the sign bits are exchanged.
encodeStitchDeltaSignsExchanged(dx, dy, type) ==
    LET cdx == Max(-MAX_STITCH, Min(MAX_STITCH, dx))
        cdy == Max(-MAX_STITCH, Min(MAX_STITCH, dy))
        nibbles == BitOr(HighNibble(Abs(cdy)), HighNibble(Abs(cdx)))
        signX == IF cdx < 0 THEN BitOr(nibbles, 64) ELSE nibbles
        signY == IF cdy < 0 THEN BitOr(signX, 32) ELSE signX
    IN  <<LowNibble(Abs(cdy)), LowNibble(Abs(cdx)), BitOr(signY, TypeBits(type))>>

\* DSTWriter.encodeStitchDelta: the three bytes of a record.
encodeStitchDelta(dx, dy, type) ==
    LET cdx == Max(-MAX_STITCH, Min(MAX_STITCH, dx))
        cdy == Max(-MAX_STITCH, Min(MAX_STITCH, dy))
        x == Abs(cdx)
        y == Abs(cdy)
        b0 == LowNibble(y)
        b1 == LowNibble(x)
        nibbles == BitOr(HighNibble(y), HighNibble(x))
        signX == IF cdx < 0 THEN BitOr(nibbles, 32) ELSE nibbles
        signY == IF cdy < 0 THEN BitOr(signX, 64) ELSE signX
        b2 == BitOr(signY, TypeBits(type))
    IN  <<b0, b1, b2>>

\* Mutant of Steps: the number of steps is rounded down.
StepsRoundedDown(dx, dy) ==
    Max(Abs(dx) \div MAX_JUMP, Abs(dy) \div MAX_JUMP)
\* steps of encodeStitches.
Steps(dx, dy) == Max(CeilDiv(Abs(dx), MAX_JUMP), CeilDiv(Abs(dy), MAX_JUMP))

\* Math.round(d * (i + 1) / steps - d * i / steps), step i of `steps`: the
\* rounded value of d / steps.
StepDelta(d, i, steps) == RoundDiv(d, steps)

\* The records encodeStitches pushes for one stitch: jumps for a large
\* movement, otherwise one record of the stitch's type.
StitchRecords(dx, dy, type) ==
    IF Abs(dx) > MAX_STITCH \/ Abs(dy) > MAX_STITCH
    THEN LET steps == Steps(dx, dy)
             RECURSIVE Jumps(_)
             Jumps(i) == IF i >= steps THEN <<>>
                         ELSE encodeStitchDelta(StepDelta(dx, i, steps),
                                                StepDelta(dy, i, steps), "jump")
                              \o Jumps(i + 1)
         IN  Jumps(0)
    ELSE encodeStitchDelta(dx, dy, type)

RECURSIVE EncodeFrom(_, _, _, _)
EncodeFrom(stitches, i, lastX, lastY) ==
    IF i > Len(stitches) THEN <<>>
    ELSE StitchRecords(stitches[i].x - lastX, stitches[i].y - lastY, stitches[i].type)
         \o EncodeFrom(stitches, i + 1, stitches[i].x, stitches[i].y)

\* Mutant of encodeStitches: the initial position record is left out.
encodeStitchesUnframed(stitches) ==
    EncodeFrom(stitches, 1, 0, 0) \o encodeStitchDelta(0, 0, "end")
\* DSTWriter.encodeStitches: the bytes of the stitch body.
encodeStitches(stitches) ==
    encodeStitchDelta(0, 0, "jump")
    \o EncodeFrom(stitches, 1, 0, 0)
    \o encodeStitchDelta(0, 0, "end")

BytesResult(pattern) == [kind |-> "bytes", pattern |-> Some(pattern), error |-> None]

\* The ArrayBuffer DSTWriter.write builds of a valid pattern given in full:
\* the header followed by the stitch data.
DstFile(pattern) ==
    LET normalizedPattern == normalizeCoordinates(pattern)
        header == createHeader(normalizedPattern)
        stitchData == encodeStitches(normalizedPattern.stitches)
    IN  IF ~header.ok THEN Throw(header.error[1])
        ELSE Ok([kind |-> "bytes", pattern |-> Some(normalizedPattern), error |-> None,
                 header |-> header.value[1], stitchData |-> stitchData,
                 byteLength |-> header.value[1].byteLength + Len(stitchData)])

\* DSTWriter.write: every error of the body is rethrown wrapped.
DstWrite(pattern) ==
    LET invalid == DstValidatePattern(pattern)
    IN  IF invalid # None
        THEN ErrorResult(ProcessingError("Failed to create DST file", invalid))
        ELSE IF "stitches" \in DOMAIN pattern
        THEN LET file == DstFile(pattern)
             IN  IF file.ok THEN file.value[1]
                 ELSE ErrorResult(ProcessingError("Failed to create DST file", file.error))
        ELSE BytesResult(pattern)

\* The writers of the other formats: write(pattern) returns the bytes.
OtherWrite(pattern) == BytesResult(pattern)

\* FormatConverter.convertToFormat: the result and the writers called.
convertToFormat(pattern, format) ==
    LET invalid == FormatValidatePattern(pattern)
        validated == WithValidatedColors(pattern)
        over == validateFormatLimits(validated, format)
        machine == convertToMachineFormat(validated)
    IN  IF invalid # None THEN [result |-> ErrorResult(invalid[1]), writers |-> <<>>]
        ELSE IF over # None THEN [result |-> ErrorResult(over[1]), writers |-> <<>>]
        ELSE IF format = "dst" THEN [result |-> DstWrite(machine), writers |-> <<"dst">>]
        ELSE [result |-> OtherWrite(machine), writers |-> <<format>>]

ConvertToFormat ==
    /\ fmtPc = "call"
    /\ LET r == convertToFormat(fmtPattern[1], fmtFormat)
       IN  /\ fmtResult' = r.result
           /\ fmtWriterCalls' = r.writers
    /\ fmtPc' = "done"
    /\ fmtEntry' = "convertToFormat"
    /\ UNCHANGED <<fmtPattern, fmtFormat>>
    /\ UNCHANGED <<pvars, cvars>>

InitFormat ==
    /\ PipelineIdle
    /\ ComponentIdle
    /\ fmtPc = "call"
    /\ fmtPattern \in {Some(pt) : pt \in FormatPatterns}
    /\ fmtFormat \in Formats
    /\ fmtWriterCalls = <<>>
    /\ fmtResult = NoResult
    /\ fmtEntry = "none"

NextFormat == ConvertToFormat

SpecFormat == InitFormat /\ [][NextFormat]_vars

(***************************************************************************)
(* DSTWriter.write, called directly and through convertToFormat, on        *)
(* patterns given in full.                                                 *)
(***************************************************************************)
StitchTypes == {"normal", "jump", "stop", "end"}
StitchXs == {-100, 0, 166, 200, 1210, 1220, 3000}
StitchYs == {0, 200, 1220}
DstStitches == [x : StitchXs, y : StitchYs, type : StitchTypes]
DstStitchLists ==
    {<<>>} \cup {<<a>> : a \in DstStitches} \cup {<<a, b>> : a \in DstStitches, b \in DstStitches}
    \cup {<<[x |-> 200, y |-> 200, type |-> "normal"],
             [x |-> 190, y |-> 190, type |-> t]>> : t \in StitchTypes}

\* A pattern given in full: what the checks read of it is derived from its
\* stitches (the coordinates modelled here are all numbers, none is NaN).
FullPattern(stitches, colorCount, width, height) ==
    [stitchCount |-> Len(stitches), nanStitch |-> FALSE, colorCount |-> colorCount,
     width |-> width, height |-> height, stitches |-> stitches]
DstPatterns == {FullPattern(st, 1, Num(30), Num(30)) : st \in DstStitchLists}

\* A direct call of DSTWriter.write(pattern).
DstWriterWrite ==
    /\ fmtPc = "call"
    /\ fmtResult' = DstWrite(fmtPattern[1])
    /\ fmtWriterCalls' = <<"dst">>
    /\ fmtPc' = "done"
    /\ fmtEntry' = "write"
    /\ UNCHANGED <<fmtPattern, fmtFormat>>
    /\ UNCHANGED <<pvars, cvars>>

InitDst ==
    /\ PipelineIdle
    /\ ComponentIdle
    /\ fmtPc = "call"
    /\ fmtPattern \in {Some(pt) : pt \in DstPatterns}
    /\ fmtFormat = "dst"
    /\ fmtWriterCalls = <<>>
    /\ fmtResult = NoResult
    /\ fmtEntry = "none"

NextDst == ConvertToFormat \/ DstWriterWrite

SpecDst == InitDst /\ [][NextDst]_vars

(***************************************************************************)
(* Properties of the format dispatch                                       *)
(***************************************************************************)
\* The limits table: maxStitches, maxColors, maxDimension (mm).
TableRow(format) ==
    CASE format \in {"dst", "exp", "pat", "qcc"} -> <<999999, 1, 400>>
      [] format \in {"pes", "vp3", "hus"} -> <<100000, 99, 260>>
      [] format = "jef" -> <<65535, 99, 260>>
\* A pattern as the data model has it: stitches, colors, positive dimensions
\* and no NaN coordinate.
WellFormed(pattern) ==
    /\ pattern.stitchCount > 0 /\ pattern.colorCount > 0
    /\ pattern.width > 0 /\ pattern.height > 0
    /\ ~pattern.nanStitch
ExceedsTableRow(pattern, format) ==
    \/ pattern.stitchCount > TableRow(format)[1]
    \/ pattern.colorCount > TableRow(format)[2]
    \/ Max(pattern.width, pattern.height) > TableRow(format)[3] * 100
FormatLimitMessages == {"Pattern has too many stitches for format", "Pattern has too many colors for format", "Pattern dimensions exceed maximum allowed for format"}

\* C9: convertToFormat of a well-formed pattern that exceeds its format's row
\* of the limits table (stitches, colors, or the larger dimension) throws one
\* of the three format-limit errors and calls no writer; so does a dst
\* pattern of 1,000,001 stitches.
C9_FormatLimits ==
    (fmtPc = "done" /\ WellFormed(fmtPattern[1])
        /\ ExceedsTableRow(fmtPattern[1], fmtFormat)) =>
            /\ fmtResult.kind = "error"
            /\ InstanceOfProcessingError(fmtResult.error[1])
            /\ fmtResult.error[1].message \in FormatLimitMessages
            /\ fmtResult.error[1].cause = None
            /\ fmtWriterCalls = <<>>
C9_Witness ==
    /\ fmtPc = "done"
    /\ fmtFormat = "dst"
    /\ WellFormed(fmtPattern[1])
    /\ fmtPattern[1].stitchCount = 1000001
    /\ fmtResult.kind = "error"
    /\ fmtResult.error[1].message = "Pattern has too many stitches for format"

\* C10: convertToFormat(pattern, 'dst') returns the bytes for every pattern of
\* 1 to 999999 stitches without NaN coordinate, with exactly one color and
\* with width and height positive and at most 400 mm.
C10_DstAccepts400mm ==
    (fmtPc = "done" /\ fmtFormat = "dst"
        /\ fmtPattern[1].stitchCount \in 1..999999
        /\ ~fmtPattern[1].nanStitch
        /\ fmtPattern[1].colorCount = 1
        /\ fmtPattern[1].width > 0 /\ fmtPattern[1].width <= 40000
        /\ fmtPattern[1].height > 0 /\ fmtPattern[1].height <= 40000) =>
            fmtResult.kind = "bytes"

(***************************************************************************)
(* Properties of the DST writer                                            *)
(***************************************************************************)
WroteDst == fmtPc = "done" /\ fmtResult.kind = "bytes"
\* Record k (from 1) of a stitch body.
RecordAt(data, k) == SubSeq(data, 3 * k - 2, 3 * k)
NumRecords(data) == Len(data) \div 3

\* C11: the positions the stitch-body encoder works on are
\* round((x - minX) * 10) and round((y - minY) * 10) of the pattern's
\* coordinates in millimetres, for a direct call of DSTWriter.write and for
\* a call through convertToFormat.
C11_ScaledOnce ==
    WroteDst =>
        LET given == fmtPattern[1].stitches
            minX == MinOf({given[i].x : i \in DOMAIN given})
            minY == MinOf({given[i].y : i \in DOMAIN given})
            encoded == fmtResult.pattern[1].stitches
        IN  \A i \in DOMAIN given :
                /\ encoded[i].x = RoundDiv((given[i].x - minX) * 10, 100)
                /\ encoded[i].y = RoundDiv((given[i].y - minY) * 10, 100)

\* The number of records of one stitch, from its delta.
RecordsOfDelta(dx, dy) ==
    IF Abs(dx) <= 121 /\ Abs(dy) <= 121 THEN 1
    ELSE Max(CeilDiv(Abs(dx), 121), CeilDiv(Abs(dy), 121))
RECURSIVE SumRecords(_, _)
SumRecords(positions, i) ==
    IF i > Len(positions) THEN 0
    ELSE RecordsOfDelta(positions[i].x - (IF i = 1 THEN 0 ELSE positions[i - 1].x),
                        positions[i].y - (IF i = 1 THEN 0 ELSE positions[i - 1].y))
         + SumRecords(positions, i + 1)

\* C12: the output of DSTWriter.write has 512 + 3 * (2 + sum of r_k) bytes,
\* r_k being 1 for a stitch whose delta is within 121 in both directions and
\* max(ceil(|dx|/121), ceil(|dy|/121)) otherwise; one Normal stitch gives 521.
C12_OutputLength ==
    WroteDst =>
        /\ fmtResult.byteLength
               = 512 + 3 * (2 + SumRecords(fmtResult.pattern[1].stitches, 1))
        /\ (Len(fmtPattern[1].stitches) = 1 /\ fmtPattern[1].stitches[1].type = "normal")
               => fmtResult.byteLength = 521
C12_Witness ==
    /\ WroteDst
    /\ fmtEntry = "write"
    /\ Len(fmtPattern[1].stitches) = 2
    /\ fmtResult.byteLength = 512 + 3 * (2 + 1 + 3)

\* C13: the stitch body follows a header of 512 bytes, its first record is
\* (0x00, 0x00, 0x83) and its last record is (0x00, 0x00, 0xF3).
C13_Framing ==
    WroteDst =>
        LET data == fmtResult.stitchData
        IN  /\ fmtResult.header.byteLength = 512
            /\ fmtResult.byteLength = 512 + Len(data)
            /\ Len(data) % 3 = 0
            /\ NumRecords(data) >= 2
            /\ RecordAt(data, 1) = <<0, 0, 131>>
            /\ RecordAt(data, NumRecords(data)) = <<0, 0, 243>>
C13_Witness ==
    /\ WroteDst
    /\ Len(fmtPattern[1].stitches) = 2
    /\ fmtPattern[1].stitches[1].type = "normal"
    /\ fmtPattern[1].stitches[1].x # fmtPattern[1].stitches[2].x

\* C14: when no stitch of the pattern is of type End, the last record of the
\* body is the only one with (b2 & 0xF3) = 0xF3.
HasEndBits(record) == BitAnd(record[3], 243) = 243
NoEndStitch(stitches) == \A i \in DOMAIN stitches : stitches[i].type # "end"
C14_SingleEndRecord ==
    (WroteDst /\ NoEndStitch(fmtPattern[1].stitches)) =>
        LET data == fmtResult.stitchData
        IN  \A k \in 1..NumRecords(data) :
                HasEndBits(RecordAt(data, k)) <=> k = NumRecords(data)
C14_Witness ==
    /\ WroteDst
    /\ fmtEntry = "write"
    /\ Len(fmtPattern[1].stitches) = 2
    /\ fmtPattern[1].stitches[2].type = "jump"
    /\ fmtPattern[1].stitches[2].x < fmtPattern[1].stitches[1].x
    /\ fmtPattern[1].stitches[2].y < fmtPattern[1].stitches[1].y
    /\ BitAnd(RecordAt(fmtResult.stitchData, 3)[3], 96) = 96

\* C15: DSTWriter.write of a pattern without stitches returns no bytes and
\* throws the error of the precondition check, unchanged.
C15_EmptyPatternError ==
    (fmtPc = "done" /\ fmtEntry = "write" /\ fmtPattern[1].stitchCount = 0) =>
        /\ fmtResult.kind = "error"
        /\ fmtResult.error[1] = DstValidatePattern(fmtPattern[1])[1]


\* The delta of stitch i from the position before it (the origin for the
\* first stitch), and the index of its first record in the body.
DeltaX(positions, i) == positions[i].x - (IF i = 1 THEN 0 ELSE positions[i - 1].x)
DeltaY(positions, i) == positions[i].y - (IF i = 1 THEN 0 ELSE positions[i - 1].y)
FirstRecordOf(positions, i) ==
    2 + SumRecords(positions, 1) - SumRecords(positions, i)
RECURSIVE SumSteps(_, _, _)
SumSteps(d, i, steps) ==
    IF i >= steps THEN 0 ELSE StepDelta(d, i, steps) + SumSteps(d, i + 1, steps)

\* C21: a movement with |dx| > 121 or |dy| > 121 is split into
\* max(ceil(|dx|/121), ceil(|dy|/121)) Jump records whose x-deltas sum to dx
\* and whose y-deltas sum to dy, each within 121 in both directions.
C21_SplitPreservesMovement ==
    WroteDst =>
        LET positions == fmtResult.pattern[1].stitches
        IN  \A i \in DOMAIN positions :
                LET dx == DeltaX(positions, i)
                    dy == DeltaY(positions, i)
                    steps == Steps(dx, dy)
                IN  (Abs(dx) > 121 \/ Abs(dy) > 121) =>
                        /\ steps = Max(CeilDiv(Abs(dx), 121), CeilDiv(Abs(dy), 121))
                        /\ \A k \in 0..(steps - 1) :
                               /\ Abs(StepDelta(dx, k, steps)) <= 121
                               /\ Abs(StepDelta(dy, k, steps)) <= 121
                               /\ RecordAt(fmtResult.stitchData,
                                           FirstRecordOf(positions, i) + k)
                                      = encodeStitchDelta(StepDelta(dx, k, steps),
                                                          StepDelta(dy, k, steps), "jump")
                        /\ SumSteps(dx, 0, steps) = dx
                        /\ SumSteps(dy, 0, steps) = dy

\* The bytes of a Normal record as the format gives them.
NormalRecord(dx, dy) ==
    <<Abs(dy) % 16, Abs(dx) % 16,
      BitOr(BitOr(Abs(dy) \div 16, Abs(dx) \div 16), 3)
          + (IF dx < 0 THEN 32 ELSE 0) + (IF dy < 0 THEN 64 ELSE 0)>>

\* C22: a Normal stitch whose delta is within 121 in both directions is
\* encoded as one record with b0 = |dy| & 0x0F, b1 = |dx| & 0x0F and
\* b2 = (|dy| >> 4) | (|dx| >> 4) | 0x03, plus 0x20 iff dx < 0 and 0x40 iff
\* dy < 0; the delta (-1, -1) gives (0x01, 0x01, 0x63).
C22_NormalRecord ==
    WroteDst =>
        LET positions == fmtResult.pattern[1].stitches
        IN  \A i \in DOMAIN positions :
                LET dx == DeltaX(positions, i)
                    dy == DeltaY(positions, i)
                    k == FirstRecordOf(positions, i)
                    record == RecordAt(fmtResult.stitchData, k)
                IN  (positions[i].type = "normal" /\ Abs(dx) <= 121 /\ Abs(dy) <= 121) =>
                        /\ record = NormalRecord(dx, dy)
                        /\ FirstRecordOf(positions, i + 1) = k + 1
                        /\ (dx = -1 /\ dy = -1) => record = <<1, 1, 99>>
C22_Witness ==
    /\ WroteDst
    /\ fmtEntry = "write"
    /\ Len(fmtPattern[1].stitches) = 2
    /\ fmtPattern[1].stitches[2].type = "normal"
    /\ DeltaX(fmtResult.pattern[1].stitches, 2) = -1
    /\ DeltaY(fmtResult.pattern[1].stitches, 2) = -1
    /\ RecordAt(fmtResult.stitchData, 3) = <<1, 1, 99>>

\* C23: after normalizeCoordinates every coordinate is a non-negative
\* integer, the least x and the least y are 0, and the header lines -X and
\* -Y carry 0 while +X and +Y carry the greatest x and y.
C23_NormalizedOrigin ==
    WroteDst =>
        LET positions == fmtResult.pattern[1].stitches
            xs == {positions[i].x : i \in DOMAIN positions}
            ys == {positions[i].y : i \in DOMAIN positions}
            lines == fmtResult.header.lines
        IN  /\ xs \subseteq Nat /\ ys \subseteq Nat
            /\ MinOf(xs) = 0 /\ MinOf(ys) = 0
            /\ lines.minusX = 0 /\ lines.minusY = 0
            /\ lines.plusX = MaxOf(xs) /\ lines.plusY = MaxOf(ys)
C23_Witness ==
    /\ WroteDst
    /\ fmtEntry = "write"
    /\ Len(fmtPattern[1].stitches) = 2
    /\ fmtPattern[1].stitches[1].x < 0
    /\ fmtPattern[1].stitches[2].y > fmtPattern[1].stitches[1].y
    /\ fmtPattern[1].stitches[1].y > 0
    /\ fmtResult.header.lines.plusX > 0
    /\ fmtResult.header.lines.plusY > 0

\* C28: the type of a record can be read from its bytes: the record of a
\* stitch with an in-range delta differs from every record of another type
\* with the same magnitudes, whatever the signs.
C28_TypeRecoverable ==
    WroteDst =>
        LET positions == fmtResult.pattern[1].stitches
        IN  \A i \in DOMAIN positions :
                LET dx == DeltaX(positions, i)
                    dy == DeltaY(positions, i)
                    record == RecordAt(fmtResult.stitchData, FirstRecordOf(positions, i))
                IN  (Abs(dx) <= 121 /\ Abs(dy) <= 121) =>
                        \A type \in StitchTypes \ {positions[i].type} :
                            \A sx, sy \in {-1, 1} :
                                encodeStitchDelta(sx * dx, sy * dy, type) # record


(***************************************************************************)
(* Components called on their own: the settings sanitizers (once on the    *)
(* caller's settings and once more on their own result), the quantizer and *)
(* the edge detector.                                                      *)
(***************************************************************************)
BaseSettings ==
    [width |-> 100, height |-> 80, density |-> 2, angle |-> 45, underlay |-> TRUE,
     pullCompensation |-> 1, color |-> "#FF0000", edgeThreshold |-> 100]
\* The calls made: the sanitizer and its settings argument.  A caller may
\* leave out the fields the sanitizer reads through `||`, `?.` and Boolean().
\* The second sanitizer takes ProcessingSettings (fillAngle, useUnderlay,
\* colorMode).
SanitizerCalls ==
    LET Without(x, key) == [k \in DOMAIN x \ {key} |-> x[k]]
        crossed == {[BaseSettings EXCEPT !.width = w, !.angle = a, !.color = c,
                                         !.edgeThreshold = e] :
                        w \in {-5, 9, 10, 11, 500, 1000, 1001},
                        a \in {-725, -360, -90, -1, 0, 45, 359, 360, 361, 725},
                        c \in {"#FF0000", "#ffff00", "red", "#FFF", "#GGGGGG"},
                        e \in {0, 1, 63, 64, 100, 128, 192, 193, 300}}
        others == {[BaseSettings EXCEPT !.height = h, !.density = d,
                                        !.pullCompensation = pl, !.underlay = u] :
                        h \in {0, 10, 80, 1000, 2000}, d \in {-1, 0, 1, 3, 5, 6},
                        pl \in {-1, 0, 50, 100, 101}, u \in BOOLEAN}
        AsProcessingSettings(x) ==
            [k \in (DOMAIN x \ {"angle", "underlay"})
                    \cup {"fillAngle", "useUnderlay", "colorMode"} |->
                CASE k = "fillAngle" -> x.angle
                  [] k = "useUnderlay" -> x.underlay
                  [] k = "colorMode" -> "grayscale"
                  [] OTHER -> x[k]]
    IN  {[fn |-> "sanitizeSettings", arg |-> x] :
            x \in crossed \cup others
                  \cup {Without(y, "edgeThreshold") : y \in crossed}
                  \cup {Without(y, "color") : y \in crossed}
                  \cup {Without(y, "underlay") : y \in others}}
        \cup {[fn |-> "sanitizeProcessingSettings", arg |-> AsProcessingSettings(x)] :
                x \in {y \in crossed : y.width = 1001} \cup others}
        \cup {[fn |-> "sanitizeProcessingSettings",
               arg |-> Without(AsProcessingSettings(x), key)] :
                x \in {y \in crossed : y.width = 1001 /\ y.angle = -90},
                key \in {"useUnderlay", "edgeThreshold", "color"}}

\* ConversionManager.sanitizeSettings applied to the settings, then to its result.
SanitizeSettings ==
    /\ callPc \in {"call", "once"}
    /\ callArg[1].fn = "sanitizeSettings"
    /\ callResult' = Append(callResult, sanitizeSettings(IF callPc = "call" THEN callArg[1].arg
                                             ELSE callResult[1]))
    /\ callPc' = IF callPc = "call" THEN "once" ELSE "twice"
    /\ UNCHANGED <<callArg, pvars, fvars>>

SanitizeProcessingSettings ==
    /\ callPc \in {"call", "once"}
    /\ callArg[1].fn = "sanitizeProcessingSettings"
    /\ callResult' = Append(callResult,
                            sanitizeProcessingSettings(IF callPc = "call" THEN callArg[1].arg
                                                       ELSE callResult[1]))
    /\ callPc' = IF callPc = "call" THEN "once" ELSE "twice"
    /\ UNCHANGED <<callArg, pvars, fvars>>

\* The calls of ColorProcessor.processImage in grayscale mode: images of one
\* row with one to three pixels.  The greys lie at and next to the midpoints
\* between palette levels, the colors Red, Green and Blue at luminance 76,
\* 150 and 29.
QuantizerCalls ==
    LET Rgba(r, g, b, a) == [r |-> r, g |-> g, b |-> b, a |-> a]
        colors == {<<v, v, v>> : v \in {10, 32, 33, 96, 160, 223, 224, 250}}
                    \cup {<<255, 0, 0>>, <<0, 255, 0>>, <<0, 0, 255>>}
        pixels == {Rgba(c[1], c[2], c[3], a) : c \in colors, a \in {255, 128}}
        opaque == {Rgba(v, v, v, 255) : v \in {10, 33, 250}} \cup {Rgba(255, 0, 0, 255)}
        rows == {<<a>> : a \in pixels} \cup {<<a, b>> : a \in pixels, b \in pixels}
                    \cup {<<a, b, c>> : a \in opaque, b \in opaque, c \in opaque}
    IN  {[fn |-> "processImage",
          arg |-> [imageData |-> [width |-> Len(row), height |-> 1, data |-> row],
                   colorMode |-> "grayscale"]] : row \in rows}

\* The calls of EdgeProcessor.detectEdges: black-and-white images of 3x3 and
\* 4x3 pixels, images of 6x3 pixels made of black, grey and white columns,
\* images too small, and a white half next to a black half over 51 and 52
\* rows (98 and 100 edge pixels).
EdgeDetectorCalls ==
    LET Grey(v) == [r |-> v, g |-> v, b |-> v, a |-> 255]
        Image(width, height, values) ==
            Buffer([width |-> width, height |-> height,
                    data |-> [i \in 1..(width * height) |-> Grey(values[i])]], "bitmap")
        small == {Image(sz[1], sz[2], [i \in 1..(sz[1] * sz[2]) |-> v]) :
                    sz \in {<<2, 3>>, <<3, 2>>, <<2, 2>>, <<1, 5>>}, v \in {0, 255}}
        grids == {Image(sz[1], sz[2], values) :
                    sz \in {<<3, 3>>, <<4, 3>>}, values \in [1..12 -> {0, 255}]}
        columns == {Image(6, 3, [i \in 1..18 |-> col[((i - 1) % 6) + 1]]) :
                        col \in [1..6 -> {0, 128, 255}]}
        halves == {Image(6, h, [i \in 1..(6 * h) |-> IF (i - 1) % 6 < 3 THEN 0 ELSE 255]) :
                        h \in {51, 52}}
        stripes == {Image(8, 52, [i \in 1..416 |-> IF (i - 1) % 8 < 4 THEN 0 ELSE 255]),
                    Image(6, 52, [i \in 1..312 |-> IF (i - 1) % 6 \in {2, 3} THEN 255 ELSE 0])}
    IN  {[fn |-> "detectEdges", arg |-> [imageData |-> img, threshold |-> 128]] :
            img \in small \cup grids \cup halves \cup stripes}
        \cup {[fn |-> "detectEdges", arg |-> [imageData |-> img, threshold |-> t]] :
                img \in columns, t \in {64, 192}}

\* The calls of the stitch planner: contours given by their vertices (a
\* closed rectangle of 5.5 x 3.4 mm, an open zigzag with three vertical
\* strokes, a horizontal bar) and settings for which the spacing is 1 mm; the
\* calls of generateFillStitches take the spacing as given.  Positions and
\* the pull compensation are in hundredths of a millimetre.  No scanline
\* passes through a vertex and no stretch between two intersections is a
\* whole number of spacings, so that the rounding of the floating-point
\* arithmetic decides nothing.
PlannerCalls ==
    LET Pt(x, y) == [x |-> x, y |-> y]
        rectangle == [points |-> <<Pt(0, 0), Pt(550, 0), Pt(550, 340), Pt(0, 340), Pt(0, 0)>>]
        zigzag == [points |-> <<Pt(0, 0), Pt(0, 340), Pt(230, 340), Pt(230, 0),
                                Pt(550, 0), Pt(550, 340)>>]
        bar == [points |-> <<Pt(110, 110), Pt(430, 110)>>]
        shapes == {<<rectangle>>, <<zigzag>>, <<rectangle, bar>>, <<bar, rectangle>>,
                   <<rectangle, zigzag>>}
    IN  {[fn |-> "generateStitches",
          arg |-> [contours |-> c,
                   settings |-> [width |-> 100, height |-> 80, density |-> 1,
                                 angle |-> a, underlay |-> u, pullCompensation |-> pl,
                                 color |-> "#000000"]]] :
            c \in shapes, a \in {0, 270}, u \in BOOLEAN, pl \in {0, Num(2)}}
        \cup {[fn |-> "generateFillStitches",
               arg |-> [contours |-> c,
                        settings |-> [angle |-> a, spacing |-> sp, color |-> "#000000"]]] :
                c \in shapes, a \in {0, 90, 180, 270}, sp \in {Num(1), Num(2)}}

\* StitchGenerator.generateStitches(params), called on its own.
GenerateStitches ==
    /\ callPc = "call"
    /\ callArg[1].fn = "generateStitches"
    /\ callResult' = <<generateStitches(callArg[1].arg)>>
    /\ callPc' = "once"
    /\ UNCHANGED <<callArg, pvars, fvars>>

\* StitchGenerator.generateFillStitches(contours, settings), called on its own.
GenerateFillStitches ==
    /\ callPc = "call"
    /\ callArg[1].fn = "generateFillStitches"
    /\ callResult' = <<generateFillStitches(callArg[1].arg.contours, callArg[1].arg.settings)>>
    /\ callPc' = "once"
    /\ UNCHANGED <<callArg, pvars, fvars>>

\* ColorProcessor.processImage(imageData, colorMode), called on its own.  The
\* quantizer writes into a copy of the buffer: its argument stays as it is.
ProcessImage ==
    /\ callPc = "call"
    /\ callArg[1].fn = "processImage"
    /\ callResult' = <<processImage(callArg[1].arg.imageData, callArg[1].arg.colorMode)>>
    /\ callPc' = "once"
    /\ UNCHANGED <<callArg, pvars, fvars>>

\* EdgeProcessor.detectEdges(imageData, threshold), called on its own.
DetectEdges ==
    /\ callPc = "call"
    /\ callArg[1].fn = "detectEdges"
    /\ callResult' = <<detectEdges(callArg[1].arg.imageData, callArg[1].arg.threshold)>>
    /\ callPc' = "once"
    /\ UNCHANGED <<callArg, pvars, fvars>>

InitComponent ==
    /\ PipelineIdle
    /\ FormatIdle
    /\ callPc = "call"
    /\ callArg \in {Some(c) : c \in SanitizerCalls \cup QuantizerCalls \cup EdgeDetectorCalls
                                    \cup PlannerCalls}
    /\ callResult = <<>>

NextComponent ==
    \/ SanitizeSettings \/ SanitizeProcessingSettings \/ ProcessImage \/ DetectEdges
    \/ GenerateStitches \/ GenerateFillStitches

SpecComponent == InitComponent /\ [][NextComponent]_vars

(***************************************************************************)
(* Properties of the settings sanitizers                                   *)
(***************************************************************************)
IsSanitizerCall == callArg # None /\ callArg[1].fn \in {"sanitizeSettings", "sanitizeProcessingSettings"}

Clamp(v, lo, hi) == IF v < lo THEN lo ELSE IF v > hi THEN hi ELSE v

\* C17: sanitizeSettings clamps width and height to [10, 1000], density to
\* [1, 5], pullCompensation to [0, 100] and edgeThreshold to [64, 192] (128
\* only when no threshold is given), reduces the angle to [0, 360) and
\* replaces a color that is not #RRGGBB by #000000.
C17_ClampsEverySetting ==
    (callArg # None /\ callArg[1].fn = "sanitizeSettings" /\ callPc = "once") =>
        LET in == callArg[1].arg
            out == callResult[1]
        IN  /\ out.width = Clamp(in.width, 10, 1000)
            /\ out.height = Clamp(in.height, 10, 1000)
            /\ out.density = Clamp(in.density, 1, 5)
            /\ out.pullCompensation = Clamp(in.pullCompensation, 0, 100)
            /\ out.edgeThreshold = IF "edgeThreshold" \in DOMAIN in
                                   THEN Clamp(in.edgeThreshold, 64, 192) ELSE 128
            /\ out.angle \in 0..359 /\ (out.angle - in.angle) % 360 = 0
            /\ out.color = IF "color" \in DOMAIN in /\ MatchesHexColor(in.color)
                           THEN in.color ELSE "#000000"

(***************************************************************************)
(* Properties of the image stages                                          *)
(***************************************************************************)
\* The image of an invocation is given by its pixels, is at least 3x3 and
\* all its pixels have the same color.
UniformImage(p) ==
    /\ params[p] # None
    /\ "data" \in DOMAIN params[p][1].imageData
    /\ LET img == params[p][1].imageData
       IN  /\ img.width >= 3 /\ img.height >= 3
           /\ \A i \in DOMAIN img.data :
                /\ img.data[i].r = img.data[1].r
                /\ img.data[i].g = img.data[1].g
                /\ img.data[i].b = img.data[1].b

\* C18: converting an image of at least 3x3 pixels of one color fails with
\* the edge detector's "No edges detected" error: the quantizer and the
\* normalizer complete, (edges,0) is reported and (edges,100) never is, and
\* no pattern is returned.
C18_UniformImageHasNoEdges ==
    \A p \in Pipelines :
        UniformImage(p) =>
            /\ ~Reported(p, <<"edges", 100>>)
            /\ result[p].kind # "pattern"
            /\ pc[p] = "done" =>
                /\ result[p].kind = "error"
                /\ InstanceOfProcessingError(result[p].error[1])
                /\ result[p].error[1].message = "No edges detected. Try adjusting the threshold or using an image with more contrast."
                /\ progressLog[p] = <<<<"processing", 0>>, <<"processing", 100>>,
                                      <<"bitmap", 0>>, <<"bitmap", 100>>, <<"edges", 0>>>>
                /\ invoked[p] = <<"ColorProcessor", "BitmapProcessor", "EdgeProcessor">>
                /\ state[p].bitmap # None
                /\ \A i \in DOMAIN state[p].bitmap[1].img.data :
                        state[p].bitmap[1].img.data[i].r = 0

\* A finished conversion of a 4x3 image whose pixels are all (200, 30, 30).
C18_Witness ==
    \E p \in Pipelines :
        /\ UniformImage(p)
        /\ pc[p] = "done"
        /\ params[p][1].imageData.width = 4
        /\ params[p][1].imageData.data[1].r = 200
        /\ result[p].kind = "error"

\* The number of interior pixels whose Sobel magnitude exceeds the threshold.
SobelCount(img, threshold) ==
    LET gray == [i \in DOMAIN img.data |-> Luminance(img.data[i])]
        gx(i) == applyKernel(gray, img.width, i, <<<<-1, 0, 1>>, <<-2, 0, 2>>, <<-1, 0, 1>>>>)
        gy(i) == applyKernel(gray, img.width, i, <<<<-1, -2, -1>>, <<0, 0, 0>>, <<1, 2, 1>>>>)
    IN  Cardinality({i \in Interior(img.width, img.height) :
                        gx(i) * gx(i) + gy(i) * gy(i) > threshold * threshold})

FailedWith(out, message) ==
    /\ ~out.ok
    /\ InstanceOfProcessingError(out.error[1])
    /\ out.error[1].message = message

DetectedEdges == callArg # None /\ callArg[1].fn = "detectEdges" /\ callPc = "once"

\* C19: detectEdges fails with "too small" for an image narrower or lower
\* than 3 pixels before anything else; otherwise with "No edges detected"
\* when no interior pixel exceeds the threshold; otherwise with "Too many
\* edges" when more than half of the interior pixels do, and not when exactly
\* half do; only then comes the check for fewer than 100 remaining pixels.
C19_GuardOrder ==
    DetectedEdges =>
        LET img == callArg[1].arg.imageData.img
            out == callResult[1]
            n == SobelCount(img, callArg[1].arg.threshold)
            total == (img.width - 2) * (img.height - 2)
        IN  IF img.width < 3 \/ img.height < 3
            THEN FailedWith(out, "Image is too small for edge detection")
            ELSE IF n = 0
            THEN FailedWith(out, "No edges detected. Try adjusting the threshold or using an image with more contrast.")
            ELSE IF 2 * n > total
            THEN FailedWith(out, "Too many edges detected. Try increasing the threshold or using a cleaner image.")
            ELSE IF n < 100
            THEN FailedWith(out, "Not enough significant edges found. Try adjusting the threshold or using an image with clearer shapes.")
            ELSE out.ok

\* An image on which exactly half of the interior pixels are edges: the
\* call got past the "Too many edges" check.
C19_Witness ==
    /\ DetectedEdges
    /\ callArg[1].arg.imageData.img.width = 6
    /\ callArg[1].arg.imageData.img.height = 3
    /\ SobelCount(callArg[1].arg.imageData.img, callArg[1].arg.threshold) = 2
    /\ FailedWith(callResult[1], "Not enough significant edges found. Try adjusting the threshold or using an image with clearer shapes.")

Quantized == callArg # None /\ callArg[1].fn = "processImage" /\ callPc = "once"

SobelEdges(img, threshold) ==
    LET gray == [i \in DOMAIN img.data |-> Luminance(img.data[i])]
        gx(i) == applyKernel(gray, img.width, i, <<<<-1, 0, 1>>, <<-2, 0, 2>>, <<-1, 0, 1>>>>)
        gy(i) == applyKernel(gray, img.width, i, <<<<-1, -2, -1>>, <<0, 0, 0>>, <<1, 2, 1>>>>)
    IN  {i \in Interior(img.width, img.height) :
            gx(i) * gx(i) + gy(i) * gy(i) > threshold * threshold}

\* C29: non-maximum suppression clears no white pixel of the thresholded
\* image; detectEdges succeeds iff the number n of interior pixels above the
\* threshold satisfies 100 <= n <= (width-2)*(height-2)/2, the image it
\* returns has exactly those pixels white, and an accepted image has at
\* least 200 interior pixels.
C29_BinaryEdgeImage ==
    (DetectedEdges /\ callArg[1].arg.imageData.img.width >= 3
                   /\ callArg[1].arg.imageData.img.height >= 3) =>
        LET img == callArg[1].arg.imageData.img
            out == callResult[1]
            edges == SobelEdges(img, callArg[1].arg.threshold)
            n == Cardinality(edges)
            total == (img.width - 2) * (img.height - 2)
            binary == [i \in DOMAIN img.data |->
                          LET v == IF i \in edges THEN 255 ELSE 0
                          IN  [r |-> v, g |-> v, b |-> v, a |-> 255]]
            thinned == nonMaximumSuppression(binary, img.width, img.height)
        IN  /\ {i \in DOMAIN thinned : thinned[i].r = 255} = edges
            /\ out.ok <=> (100 <= n /\ 2 * n <= total)
            /\ out.ok =>
                /\ total >= 200
                /\ LET returned == out.value[1].img
                   IN  /\ returned.width = img.width /\ returned.height = img.height
                       /\ DOMAIN returned.data = DOMAIN img.data
                       /\ \A i \in DOMAIN returned.data :
                            IF i \in edges
                            THEN returned.data[i]
                                     = [r |-> 255, g |-> 255, b |-> 255, a |-> 255]
                            ELSE returned.data[i].r = 0

\* An accepted image of 8 x 52 pixels: 100 of its 300 interior pixels are
\* edges, in two adjacent columns.
C29_Witness ==
    /\ DetectedEdges
    /\ callArg[1].arg.imageData.img.width = 8
    /\ callResult[1].ok
    /\ Cardinality(SobelEdges(callArg[1].arg.imageData.img, callArg[1].arg.threshold)) = 100

\* C30: getProgress() returns the stage and percentage of the most recent
\* progress callback and error = null: a step that makes callbacks leaves
\* the last of them in the manager, a step that makes none (a rejected
\* call, a failing stage) leaves stage and progress as they are, and when a
\* conversion fails in stage k, the calls having been made one after the
\* other, the manager reports stage k at 0%.
C30_ProgressIsLastCallback ==
    [][/\ mgrError' = None
       /\ progressLog' = progressLog => UNCHANGED <<mgrStage, mgrProgress>>
       /\ \A p \in Pipelines :
            /\ progressLog'[p] # progressLog[p] =>
                   <<mgrStage', mgrProgress'>> = progressLog'[p][Len(progressLog'[p])]
            /\ (pc[p] = "idle" /\ pc'[p] = "done" /\ failedStage'[p] = 0) =>
                   UNCHANGED <<mgrStage, mgrProgress>>
            /\ (pc[p] # "done" /\ pc'[p] = "done" /\ failedStage'[p] >= 1
                    /\ ~overlapped') =>
                   /\ mgrStage' = StageNames[failedStage'[p]]
                   /\ mgrProgress' = 0]_vars

\* A conversion that failed in the edges stage, followed by a call that was
\* rejected by input validation.
C30_Witness ==
    \E p, q \in Pipelines :
        /\ p # q
        /\ ~overlapped
        /\ pc[p] = "done" /\ failedStage[p] = 3
        /\ pc[q] = "done" /\ progressLog[q] = <<>> /\ result[q].kind = "error"
        /\ mgrStage = "edges" /\ mgrProgress = 0 /\ mgrError = None

\* C27: what the stages read of the pipeline's settings is what the caller
\* asked for, sanitized: the planner's fill angle is the caller's angle
\* reduced to [0, 360), its underlay flag the caller's, its pullCompensation
\* and the detector's edgeThreshold the caller's values clamped, and the
\* quantizer's colorMode the caller's.
C27_SettingsReachStages ==
    \A p \in Pipelines :
        settings[p] # None =>
            LET caller == params[p][1].settings
                s == settings[p][1]
                Reads(key, v) == key \in DOMAIN s /\ s[key] = v
            IN  /\ Reads("fillAngle", NormalizeAngle(caller.angle))
                /\ Reads("useUnderlay", caller.underlay)
                /\ Reads("pullCompensation", Clamp(caller.pullCompensation, 0, 100))
                /\ EdgeThresholdOrDefault(s) = Clamp(caller.edgeThreshold, 64, 192)
                /\ "colorMode" \in DOMAIN caller => Reads("colorMode", caller.colorMode)

PlannedStitches == callArg # None /\ callArg[1].fn = "generateStitches" /\ callPc = "once"
FilledStitches == callArg # None /\ callArg[1].fn = "generateFillStitches" /\ callPc = "once"

\* The outlines of the contours from contour c on, in list order.
RECURSIVE OutlinesFrom(_, _, _, _)
OutlinesFrom(contours, c, spacing, color) ==
    IF c > Len(contours) THEN <<>>
    ELSE generateOutlineStitches(contours[c].points, spacing, color)
         \o OutlinesFrom(contours, c + 1, spacing, color)
UnderlayOf(arg) ==
    IF arg.settings.underlay
    THEN generateFillStitches(arg.contours,
             [angle |-> (arg.settings.angle + 90) % 360,
              spacing |-> 2 * Spacing(arg.settings), color |-> arg.settings.color])
    ELSE <<>>
FillOf(arg) ==
    generateFillStitches(arg.contours,
        [angle |-> arg.settings.angle, spacing |-> Spacing(arg.settings),
         color |-> arg.settings.color])

\* C24: generateStitches returns, in this order, a Jump to contours[0][0],
\* the underlay fill at angle (fillAngle + 90) mod 360 with twice the spacing
\* if underlay is enabled, the fill at fillAngle, the outline of each contour
\* in list order, each beginning with a Jump to the contour's first vertex,
\* and a terminal Jump at the position of the stitch before it.
C24_PhaseOrder ==
    PlannedStitches =>
        LET arg == callArg[1].arg
            contours == arg.contours
            spacing == Spacing(arg.settings)
            out == callResult[1].value[1]
            underlay == UnderlayOf(arg)
            fill == FillOf(arg)
            outlines == OutlinesFrom(contours, 1, spacing, arg.settings.color)
            body == 1 + Len(underlay) + Len(fill)
            OutlineStart(c) ==
                body + 1 + Len(outlines)
                    - Len(OutlinesFrom(contours, c, spacing, arg.settings.color))
        IN  /\ callResult[1].ok
            /\ Len(out) = body + Len(outlines) + 1
            /\ out[1].type = "jump"
            /\ out[1].x = contours[1].points[1].x /\ out[1].y = contours[1].points[1].y
            /\ SubSeq(out, 2, 1 + Len(underlay)) = underlay
            /\ SubSeq(out, 2 + Len(underlay), body) = fill
            /\ SubSeq(out, body + 1, body + Len(outlines)) = outlines
            /\ \A c \in DOMAIN contours :
                    /\ out[OutlineStart(c)].type = "jump"
                    /\ out[OutlineStart(c)].x = contours[c].points[1].x
                    /\ out[OutlineStart(c)].y = contours[c].points[1].y
            /\ out[Len(out)].type = "jump"
            /\ out[Len(out)].x = out[Len(out) - 1].x
            /\ out[Len(out)].y = out[Len(out) - 1].y
\* Two contours with underlay: all five phases are there.
C24_Witness ==
    /\ PlannedStitches
    /\ callArg[1].arg.settings.underlay
    /\ callArg[1].arg.settings.angle = 270
    /\ Len(callArg[1].arg.contours) = 2
    /\ UnderlayOf(callArg[1].arg) # <<>>
    /\ FillOf(callArg[1].arg) # <<>>
    /\ UnderlayOf(callArg[1].arg) # FillOf(callArg[1].arg)
    /\ Len(callResult[1].value[1])
           > 2 + Len(UnderlayOf(callArg[1].arg)) + Len(FillOf(callArg[1].arg))

\* C25: a scanline of the fill gets stitches only if the number of contour
\* edges it crosses is even; with an odd number it gets none, and with an
\* even number every crossing is the start or the end of exactly one
\* stretch, so the scanline has half as many Jumps as crossings.
C25_EvenScanlinesOnly ==
    FilledStitches =>
        LET contours == callArg[1].arg.contours
            fs == callArg[1].arg.settings
            out == callResult[1]
            \* the coordinate across the scanlines
            Across(pt) == pt.y * Cos(fs.angle) - pt.x * Sin(fs.angle)
            all == UNION {{contours[c].points[i] : i \in DOMAIN contours[c].points} :
                            c \in DOMAIN contours}
            xs == {pt.x : pt \in all}
            ys == {pt.y : pt \in all}
            center == [x |-> (MinOf(xs) + MaxOf(xs)) \div 2,
                       y |-> (MinOf(ys) + MaxOf(ys)) \div 2]
            numLines == CeilSqrtDiv((MaxOf(xs) - MinOf(xs)) * (MaxOf(xs) - MinOf(xs))
                                      + (MaxOf(ys) - MinOf(ys)) * (MaxOf(ys) - MinOf(ys)),
                                    fs.spacing)
            Level(i) == Across(center) + i * fs.spacing
            Crossings(i) ==
                Cardinality({<<c, k>> \in (DOMAIN contours) \X (1..6) :
                    /\ k < Len(contours[c].points)
                    /\ Across(contours[c].points[k]) # Across(contours[c].points[k + 1])
                    /\ Min(Across(contours[c].points[k]), Across(contours[c].points[k + 1]))
                           <= Level(i)
                    /\ Level(i) <= Max(Across(contours[c].points[k]),
                                       Across(contours[c].points[k + 1]))})
            OnLine(i) == {k \in DOMAIN out : Across(out[k]) = Level(i)}
        IN  \A i \in (-numLines)..numLines :
                IF Crossings(i) % 2 = 1 THEN OnLine(i) = {}
                ELSE Cardinality({k \in OnLine(i) : out[k].type = "jump"}) * 2 = Crossings(i)

\* C26: for pullCompensation p > 0 every stitch generateStitches returns is
\* the planned stitch moved by (+p, +p); for p = 0 the stitches are the
\* planned ones.
C26_PullCompensation ==
    PlannedStitches =>
        LET arg == callArg[1].arg
            p == arg.settings.pullCompensation
            planned == generateStitches([arg EXCEPT !.settings.pullCompensation = 0]).value[1]
        IN  callResult[1].value[1]
                = IF p > 0 THEN applyPullCompensation(planned, p) ELSE planned
====
